---- MODULE Spec2Model ----
(***************************************************************************)
(* NBL classification routines of the NDIS driver library (nblclassify.h): *)
(* NdisClassifyNblChain2, NdisClassifyNblChainByIndex,                     *)
(* NdisClassifyNblChainByValue, NdisClassifyNblChainByValueLookahead and   *)
(* NdisPartialClassifyNblChainByValue, over a heap of NET_BUFFER_LISTs     *)
(* linked by their Next field.                                             *)
(*                                                                         *)
(* The whole mutable state of a call (the heap, the queues, the locals of  *)
(* the routine, the callbacks made so far) is the record s.  Every loop    *)
(* iteration of a routine is an operator from s to the next s, so that the *)
(* same translation serves as an action and, iterated, as the result of a  *)
(* whole call.                                                             *)
(***************************************************************************)
EXTENDS Integers, Sequences, FiniteSets, TLC

VARIABLES input, s

vars == <<input, s>>

\* ---------------------------------------------------------------- bounds
MaxLen == 6        \* longest input chain
NumKeys == 3       \* classification values are 0 .. NumKeys-1
MaxQueues == 3     \* largest NumberOfQueues of NdisClassifyNblChainByIndex
MaxPrior == 1      \* most NBLs already in an output queue before a call
MaxRing == 4       \* longest input chain that contains a cycle
MaxMdls == 3       \* most MDLs in an MDL chain
MaxBytes == 2      \* largest byte count of one MDL
MaxSpan == 4       \* largest Offset and largest Length of an MDL_SPAN
MaxPairMdls == 2   \* most MDLs in each chain of a pairwise iteration
MaxPairBytes == 2  \* largest byte count of an MDL of a pairwise iteration
MaxPairOffset == 2 \* largest Offset of the two pointers of a pairwise iteration
MaxPairLength == 3 \* largest TotalLength of a pairwise iteration
MaxOidLength == 2   \* largest data length (BytesRead, BytesWritten, BytesNeeded) of an OID request

\* ------------------------------------------------------ program constants
NDIS_CLASSIFY_NBL_LOOKHEAD_DEPTH == 4

NULL == 0

\* A local or an array element that no statement has written yet.
Uninit == "uninitialized"

\* ------------------------------------------------------------------ heap
\* NBLs 1..MaxLen are the input chain's; the rest sit in the output queues
\* before the call.
PriorNbl(q, j) == MaxLen + q * MaxPrior + j

Nbls == 1 .. (MaxLen + MaxQueues * MaxPrior)

Keys == 0 .. (NumKeys - 1)

\* The NBLs met by following Next from NblChain, as NdisNumNblsInNblChain walks
\* them; the walk is cut off after more steps than there are NBLs.
RECURSIVE WalkNblChain(_, _, _)
WalkNblChain(next, NblChain, fuel) ==
    IF NblChain = NULL \/ fuel = 0
    THEN <<>>
    ELSE <<NblChain>> \o WalkNblChain(next, next[NblChain], fuel - 1)

NblsInChain(next, NblChain) == WalkNblChain(next, NblChain, Cardinality(Nbls) + 1)

\* ------------------------------------------------------------- NBL_QUEUE
EmptyQueue == [First |-> NULL, Last |-> NULL]

NdisInitializeNblQueue == EmptyQueue

\* The queue's tail reference is left on the previous tail.
NdisAppendNblChainToNblQueueFast_KeepsTail(next, Q, First, Last) ==
    LET linked == IF Q.First = NULL THEN next ELSE [next EXCEPT ![Q.Last] = First]
    IN  [Next |-> [linked EXCEPT ![Last] = NULL],
         Q    |-> [First |-> IF Q.First = NULL THEN First ELSE Q.First,
                   Last  |-> IF Q.First = NULL THEN Last ELSE Q.Last]]

\* The Next of the appended chain's first NBL is set to NULL as well.
NdisAppendNblChainToNblQueueFast_ClearsHead(next, Q, First, Last) ==
    LET linked == IF Q.First = NULL THEN next ELSE [next EXCEPT ![Q.Last] = First]
    IN  [Next |-> [linked EXCEPT ![Last] = NULL, ![First] = NULL],
         Q    |-> [First |-> IF Q.First = NULL THEN First ELSE Q.First,
                   Last  |-> Last]]

\* The previous tail is not linked to the appended chain.
NdisAppendNblChainToNblQueueFast_NoLink(next, Q, First, Last) ==
    [Next |-> [next EXCEPT ![Last] = NULL],
     Q    |-> [First |-> IF Q.First = NULL THEN First ELSE Q.First,
               Last  |-> Last]]

\* Appends the chain First..Last to the queue in O(1): returns the new heap
\* and the new queue.
NdisAppendNblChainToNblQueueFast(next, Q, First, Last) ==
    LET linked == IF Q.First = NULL THEN next ELSE [next EXCEPT ![Q.Last] = First]
    IN  [Next |-> [linked EXCEPT ![Last] = NULL],
         Q    |-> [First |-> IF Q.First = NULL THEN First ELSE Q.First,
                   Last  |-> Last]]

\* append_single: the chain of one NBL.
NdisAppendSingleNblToNblQueue(next, Q, Nbl) ==
    NdisAppendNblChainToNblQueueFast(next, Q, Nbl, Nbl)

\* from_chain: the chain is walked to its last NBL, then appended.
NdisAppendNblChainToNblQueue(next, Q, NblChain) ==
    LET chain == NblsInChain(next, NblChain)
    IN  NdisAppendNblChainToNblQueueFast(next, Q, NblChain, chain[Len(chain)])

\* ----------------------------------------------------- NBL_COUNTED_QUEUE
EmptyCountedQueue == [First |-> NULL, Last |-> NULL, NblCount |-> 0]

NdisInitializeNblCountedQueue == EmptyCountedQueue

\* The chain is appended as to an NBL_QUEUE and Count is added to the queue's
\* count, which is trusted, not recounted.
NdisAppendNblChainToNblCountedQueueFast(next, Q, First, Last, Count) ==
    LET app == NdisAppendNblChainToNblQueueFast(next, [First |-> Q.First, Last |-> Q.Last],
                                                First, Last)
    IN  [Next |-> app.Next,
         Q    |-> [First |-> app.Q.First, Last |-> app.Q.Last,
                   NblCount |-> Q.NblCount + Count]]

NdisAppendSingleNblToNblCountedQueue(next, Q, Nbl) ==
    NdisAppendNblChainToNblCountedQueueFast(next, Q, Nbl, Nbl, 1)

\* The chain is walked to its last NBL and counted on the way.
NdisAppendNblChainToNblCountedQueue(next, Q, NblChain) ==
    LET chain == NblsInChain(next, NblChain)
    IN  NdisAppendNblChainToNblCountedQueueFast(next, Q, NblChain, chain[Len(chain)],
                                                Len(chain))

\* The pop without its decrement of the count.
NdisPopFirstNblFromNblCountedQueue_StaleCount(next, Q) ==
    LET Nbl == Q.First
    IN  [Next |-> [next EXCEPT ![Nbl] = NULL],
         Nbl  |-> Nbl,
         Q    |-> [First |-> next[Nbl],
                   Last |-> IF next[Nbl] = NULL THEN NULL ELSE Q.Last,
                   NblCount |-> Q.NblCount]]

\* pop: the first NBL leaves the queue, alone, and the count is decremented.
NdisPopFirstNblFromNblCountedQueue(next, Q) ==
    LET Nbl == Q.First
    IN  [Next |-> [next EXCEPT ![Nbl] = NULL],
         Nbl  |-> Nbl,
         Q    |-> [First |-> next[Nbl],
                   Last |-> IF next[Nbl] = NULL THEN NULL ELSE Q.Last,
                   NblCount |-> Q.NblCount - 1]]

\* pop of the whole chain: the queue is left as init leaves it.
NdisPopAllFromNblCountedQueue(next, Q) ==
    [Next |-> next, Nbl |-> Q.First, Q |-> NdisInitializeNblCountedQueue]

\* ------------------------------------------------------------- callbacks
\* The classification callback is a pure function of the NBL; every
\* invocation is recorded.
ClassificationCallback(Nbl) == input.cls[Nbl]

Classified(st, Nbl) == Append(st.classified, Nbl)

\* The flush callback sees the classification result and the queue, whose
\* NBLs it reads by walking from Queue.First.
FlushCallback(st, ClassificationResult, Queue) ==
    Append(st.flushed, [key |-> ClassificationResult,
                        nbls |-> NblsInChain(st.Next, Queue.First)])

\* The flush callback of the WithCount routines also sees the queue's count.
FlushWithCountCallback(st, ClassificationResult, Queue) ==
    Append(st.flushed, [key |-> ClassificationResult,
                        nbls |-> NblsInChain(st.Next, Queue.First),
                        count |-> Queue.NblCount])

\* What the caller of a classifier can count: the NBLs whose Next field the
\* routine has set to NULL itself, and the appends it has made.
Cut(st, Nbl) == Append(st.cuts, Nbl)

Appending(st, First, Last) == Append(st.appends, [First |-> First, Last |-> Last])

\* ----------------------------------------------------------- initial state
\* The input chain 1 -> 2 -> ... -> len -> NULL.
InputChain(len) == [n \in Nbls |-> IF n < len THEN n + 1 ELSE NULL]

\* The heap with the first prior[q] prior NBLs of every queue q < nq chained.
HeapWithPrior(len, prior, nq) ==
    [n \in Nbls |->
        IF n <= MaxLen
        THEN InputChain(len)[n]
        ELSE IF \E q \in 0 .. (nq - 1) : \E j \in 1 .. (prior[q] - 1) : n = PriorNbl(q, j)
             THEN n + 1
             ELSE NULL]

PriorQueue(prior, q) ==
    IF prior[q] = 0
    THEN EmptyQueue
    ELSE [First |-> PriorNbl(q, 1), Last |-> PriorNbl(q, prior[q])]

PriorContents(prior, q) == [j \in 1 .. prior[q] |-> PriorNbl(q, j)]

\* The output queues before a call: all empty, or one of them holding up to
\* MaxPrior NBLs of an earlier call.
PriorChoices(nq) ==
    {[q \in 0 .. (nq - 1) |-> IF q = h THEN p ELSE 0] :
        h \in 0 .. (nq - 1), p \in 0 .. MaxPrior}

Idle(len) ==
    [op |-> "idle", pc |-> "idle",
     Next |-> InputChain(len),
     NblChain |-> 1,
     Nbl |-> Uninit, First |-> Uninit, Previous |-> Uninit,
     CurrentIndex |-> Uninit, ThisIndex |-> Uninit,
     Queues |-> <<>>, NumberOfQueues |-> 0, prior |-> <<>>,
     FirstNbl |-> Uninit, PreviousNbl |-> Uninit,
     TargetClassification |-> Uninit, Queue |-> Uninit,
     Valid |-> Uninit, PreviousIndex |-> Uninit, Depth |-> 0, i |-> Uninit,
     HomogenousQueue |-> Uninit, ClassificationResult |-> Uninit,
     ResultPresent |-> FALSE, entry |-> Uninit, returns |-> 0,
     Count |-> Uninit, cuts |-> <<>>, appends |-> <<>>,
     flushed |-> <<>>, classified |-> <<>>]

Init ==
    /\ \E len \in 1 .. MaxLen :
       \E cls \in [1 .. len -> Keys] :
          input = [len |-> len, cls |-> cls]
    /\ s = Idle(input.len)

\* ---------------------------------------------------- NdisClassifyNblChain2
\* Queue0 and Queue1 are Queues[0] and Queues[1].
Classify2Queue_Swapped(CurrentIndex) == IF CurrentIndex = 0 THEN 1 ELSE 0

Classify2Queue(CurrentIndex) == IF CurrentIndex = 0 THEN 0 ELSE 1

NdisClassifyNblChain2_Entry(st, prior) ==
    LET Nbl == st.NblChain
        ThisIndex == ClassificationCallback(Nbl)
    IN  [st EXCEPT !.op = "Classify2", !.pc = "loop",
                   !.Next = HeapWithPrior(input.len, prior, 2),
                   !.Queues = [q \in 0 .. 1 |-> PriorQueue(prior, q)],
                   !.NumberOfQueues = 2,
                   !.prior = prior,
                   !.First = Nbl,
                   !.classified = Classified(st, Nbl),
                   !.ThisIndex = ThisIndex,
                   !.CurrentIndex = ThisIndex,
                   !.Previous = Nbl,
                   !.Nbl = st.Next[Nbl]]

\* Every NBL is cut off and appended by itself, whether or not the index
\* changes.
NdisClassifyNblChain2_Loop_PerNbl(st) ==
    LET Nbl == st.Nbl
        ThisIndex == ClassificationCallback(Nbl)
        Q == Classify2Queue(st.CurrentIndex)
        cut == [st.Next EXCEPT ![st.Previous] = NULL]
        app == NdisAppendNblChainToNblQueueFast(cut, st.Queues[Q], st.First, st.Previous)
        t == [st EXCEPT !.classified = Classified(st, Nbl), !.ThisIndex = ThisIndex]
        u == [t EXCEPT !.Next = app.Next,
                       !.cuts = Cut(st, st.Previous),
                       !.Queues[Q] = app.Q,
                       !.appends = Appending(st, st.First, st.Previous),
                       !.CurrentIndex = ThisIndex,
                       !.First = Nbl]
    IN  [u EXCEPT !.Previous = Nbl, !.Nbl = u.Next[Nbl]]

\* Previous->Next = NULL in every pass, whether or not the index changes.
NdisClassifyNblChain2_Loop_CutsEveryPass(st) ==
    LET Nbl == st.Nbl
        ThisIndex == ClassificationCallback(Nbl)
        Q == Classify2Queue(st.CurrentIndex)
        cut == [st.Next EXCEPT ![st.Previous] = NULL]
        app == NdisAppendNblChainToNblQueueFast(cut, st.Queues[Q], st.First, st.Previous)
        t == [st EXCEPT !.classified = Classified(st, Nbl), !.ThisIndex = ThisIndex,
                        !.Next = cut]
        u == IF ThisIndex # st.CurrentIndex
             THEN [t EXCEPT !.Next = app.Next,
                            !.cuts = Cut(st, st.Previous),
                            !.Queues[Q] = app.Q,
                            !.appends = Appending(st, st.First, st.Previous),
                            !.CurrentIndex = ThisIndex,
                            !.First = Nbl]
             ELSE t
    IN  [u EXCEPT !.Previous = Nbl, !.Nbl = u.Next[Nbl]]

\* The loop body without Previous = Nbl; Nbl = Nbl->Next.
NdisClassifyNblChain2_Loop_NoAdvance(st) ==
    [st EXCEPT !.ThisIndex = ClassificationCallback(st.Nbl)]

NdisClassifyNblChain2_Loop(st) ==
    LET Nbl == st.Nbl
        ThisIndex == ClassificationCallback(Nbl)
        Q == Classify2Queue(st.CurrentIndex)
        cut == [st.Next EXCEPT ![st.Previous] = NULL]
        app == NdisAppendNblChainToNblQueueFast(cut, st.Queues[Q], st.First, st.Previous)
        t == [st EXCEPT !.classified = Classified(st, Nbl), !.ThisIndex = ThisIndex]
        u == IF ThisIndex # st.CurrentIndex
             THEN [t EXCEPT !.Next = app.Next,
                            !.cuts = Cut(st, st.Previous),
                            !.Queues[Q] = app.Q,
                            !.appends = Appending(st, st.First, st.Previous),
                            !.CurrentIndex = ThisIndex,
                            !.First = Nbl]
             ELSE t
    IN  [u EXCEPT !.Previous = Nbl, !.Nbl = u.Next[Nbl]]

NdisClassifyNblChain2_Exit(st) ==
    LET Q == Classify2Queue(st.CurrentIndex)
        app == NdisAppendNblChainToNblQueueFast(st.Next, st.Queues[Q], st.First, st.Previous)
    IN  [st EXCEPT !.Next = app.Next, !.Queues[Q] = app.Q,
                   !.appends = Appending(st, st.First, st.Previous),
                   !.pc = "done"]

Classify2Call ==
    /\ s.op = "idle"
    /\ \A n \in 1 .. input.len : input.cls[n] \in {0, 1}
    /\ \E prior \in PriorChoices(2) :
          s' = NdisClassifyNblChain2_Entry(s, prior)
    /\ UNCHANGED input

\* A build without assertions, and a callback that returns an index other
\* than 0 and 1 for some NBL of the chain.
Classify2CallRelease ==
    /\ s.op = "idle"
    /\ \E n \in 1 .. input.len : input.cls[n] \notin {0, 1}
    /\ \E prior \in PriorChoices(2) :
          s' = NdisClassifyNblChain2_Entry(s, prior)
    /\ UNCHANGED input

Classify2Iterate ==
    /\ s.op = "Classify2" /\ s.pc = "loop"
    /\ s.Nbl # NULL
    /\ s' = NdisClassifyNblChain2_Loop(s)
    /\ UNCHANGED input

Classify2Return ==
    /\ s.op = "Classify2" /\ s.pc = "loop"
    /\ s.Nbl = NULL
    /\ s' = NdisClassifyNblChain2_Exit(s)
    /\ UNCHANGED input

\* ----------------------------------------------- NdisClassifyNblChainByIndex
NdisClassifyNblChainByIndex_Entry(st, prior, NumberOfQueues) ==
    LET Nbl == st.NblChain
        ThisIndex == ClassificationCallback(Nbl)
    IN  [st EXCEPT !.op = "ByIndex", !.pc = "loop",
                   !.Next = HeapWithPrior(input.len, prior, NumberOfQueues),
                   !.Queues = [q \in 0 .. (NumberOfQueues - 1) |-> PriorQueue(prior, q)],
                   !.NumberOfQueues = NumberOfQueues,
                   !.prior = prior,
                   !.First = Nbl,
                   !.classified = Classified(st, Nbl),
                   !.ThisIndex = ThisIndex,
                   !.CurrentIndex = ThisIndex,
                   !.Previous = Nbl,
                   !.Nbl = st.Next[Nbl]]

NdisClassifyNblChainByIndex_Loop(st) ==
    LET Nbl == st.Nbl
        ThisIndex == ClassificationCallback(Nbl)
        cut == [st.Next EXCEPT ![st.Previous] = NULL]
        app == NdisAppendNblChainToNblQueueFast(cut, st.Queues[st.CurrentIndex],
                                                st.First, st.Previous)
        t == [st EXCEPT !.classified = Classified(st, Nbl), !.ThisIndex = ThisIndex]
        u == IF ThisIndex # st.CurrentIndex
             THEN [t EXCEPT !.Next = app.Next,
                            !.cuts = Cut(st, st.Previous),
                            !.Queues[st.CurrentIndex] = app.Q,
                            !.appends = Appending(st, st.First, st.Previous),
                            !.CurrentIndex = ThisIndex,
                            !.First = Nbl]
             ELSE t
    IN  [u EXCEPT !.Previous = Nbl, !.Nbl = u.Next[Nbl]]

\* The final run appended to the first queue instead of Queues[CurrentIndex].
NdisClassifyNblChainByIndex_Exit_FirstQueue(st) ==
    LET app == NdisAppendNblChainToNblQueueFast(st.Next, st.Queues[0], st.First, st.Previous)
    IN  [st EXCEPT !.Next = app.Next, !.Queues[0] = app.Q,
                   !.appends = Appending(st, st.First, st.Previous),
                   !.pc = "done"]

NdisClassifyNblChainByIndex_Exit(st) ==
    LET app == NdisAppendNblChainToNblQueueFast(st.Next, st.Queues[st.CurrentIndex],
                                                st.First, st.Previous)
    IN  [st EXCEPT !.Next = app.Next, !.Queues[st.CurrentIndex] = app.Q,
                   !.appends = Appending(st, st.First, st.Previous),
                   !.pc = "done"]

ByIndexCall ==
    /\ s.op = "idle"
    /\ \E NumberOfQueues \in 1 .. MaxQueues :
          /\ \A n \in 1 .. input.len : input.cls[n] < NumberOfQueues
          /\ \E prior \in PriorChoices(NumberOfQueues) :
                s' = NdisClassifyNblChainByIndex_Entry(s, prior, NumberOfQueues)
    /\ UNCHANGED input

\* A build without assertions, and a callback that returns an index that is
\* not below NumberOfQueues for some NBL of the chain.
ByIndexCallRelease ==
    /\ s.op = "idle"
    /\ \E NumberOfQueues \in 1 .. MaxQueues :
          /\ \E n \in 1 .. input.len : input.cls[n] >= NumberOfQueues
          /\ \E prior \in PriorChoices(NumberOfQueues) :
                s' = NdisClassifyNblChainByIndex_Entry(s, prior, NumberOfQueues)
    /\ UNCHANGED input

\* A pass or an exit that passes &Queues[CurrentIndex] to the append has
\* CurrentIndex inside the array; the other case is ByIndexOutOfBounds.
ByIndexIterate ==
    /\ s.op = "ByIndex" /\ s.pc = "loop"
    /\ s.Nbl # NULL
    /\ \/ s.CurrentIndex < s.NumberOfQueues
       \/ ClassificationCallback(s.Nbl) = s.CurrentIndex
    /\ s' = NdisClassifyNblChainByIndex_Loop(s)
    /\ UNCHANGED input

ByIndexReturn ==
    /\ s.op = "ByIndex" /\ s.pc = "loop"
    /\ s.Nbl = NULL
    /\ s.CurrentIndex < s.NumberOfQueues
    /\ s' = NdisClassifyNblChainByIndex_Exit(s)
    /\ UNCHANGED input

\* The pass or the exit that appends the run First .. Previous to
\* &Queues[CurrentIndex] when CurrentIndex is past the end of the array.  The
\* append reads and writes whatever lies there as an NBL_QUEUE: the access
\* faults; or it writes through the pointer it finds in the Last field, after
\* which nothing is known of the program ("corrupt"); or the memory takes
\* the run as a queue would, and the routine goes on ("beyond").
ByIndexOutOfBounds ==
    /\ s.op = "ByIndex" /\ s.pc = "loop"
    /\ s.CurrentIndex >= s.NumberOfQueues
    /\ s.Nbl # NULL => ClassificationCallback(s.Nbl) # s.CurrentIndex
    /\ \E outcome \in {"fault", "corrupt", "beyond"} :
          LET Nbl == s.Nbl
              t == IF Nbl = NULL THEN s
                   ELSE [s EXCEPT !.classified = Classified(s, Nbl),
                                  !.ThisIndex = ClassificationCallback(Nbl)]
          IN  s' = IF outcome # "beyond"
                   THEN [t EXCEPT !.Next[s.Previous] = IF Nbl = NULL THEN @ ELSE NULL,
                                  !.pc = outcome]
                   ELSE IF Nbl = NULL
                   THEN [t EXCEPT !.Next[s.Previous] = NULL,
                                  !.appends = Appending(s, s.First, s.Previous),
                                  !.pc = "done"]
                   ELSE [t EXCEPT !.Next[s.Previous] = NULL,
                                  !.cuts = Cut(s, s.Previous),
                                  !.appends = Appending(s, s.First, s.Previous),
                                  !.CurrentIndex = t.ThisIndex,
                                  !.First = Nbl,
                                  !.Previous = Nbl,
                                  !.Nbl = s.Next[Nbl]]
    /\ UNCHANGED input

\* ------------------------------------------- NdisClassifyNblChain2WithCount
PriorCountedQueue(prior, q) ==
    [First |-> PriorQueue(prior, q).First, Last |-> PriorQueue(prior, q).Last,
     NblCount |-> prior[q]]

NdisClassifyNblChain2WithCount_Entry(st, prior) ==
    LET Nbl == st.NblChain
        ThisIndex == ClassificationCallback(Nbl)
    IN  [st EXCEPT !.op = "Classify2WithCount", !.pc = "loop",
                   !.Next = HeapWithPrior(input.len, prior, 2),
                   !.Queues = [q \in 0 .. 1 |-> PriorCountedQueue(prior, q)],
                   !.NumberOfQueues = 2,
                   !.prior = prior,
                   !.First = Nbl,
                   !.Count = 1,
                   !.classified = Classified(st, Nbl),
                   !.ThisIndex = ThisIndex,
                   !.CurrentIndex = ThisIndex,
                   !.Previous = Nbl,
                   !.Nbl = st.Next[Nbl]]

NdisClassifyNblChain2WithCount_Loop(st) ==
    LET Nbl == st.Nbl
        ThisIndex == ClassificationCallback(Nbl)
        Q == Classify2Queue(st.CurrentIndex)
        cut == [st.Next EXCEPT ![st.Previous] = NULL]
        app == NdisAppendNblChainToNblCountedQueueFast(cut, st.Queues[Q], st.First,
                                                       st.Previous, st.Count)
        t == [st EXCEPT !.classified = Classified(st, Nbl), !.ThisIndex = ThisIndex]
        u == IF ThisIndex # st.CurrentIndex
             THEN [t EXCEPT !.Next = app.Next,
                            !.cuts = Cut(st, st.Previous),
                            !.Queues[Q] = app.Q,
                            !.appends = Appending(st, st.First, st.Previous),
                            !.CurrentIndex = ThisIndex,
                            !.First = Nbl,
                            !.Count = 1]
             ELSE [t EXCEPT !.Count = @ + 1]
    IN  [u EXCEPT !.Previous = Nbl, !.Nbl = u.Next[Nbl]]

NdisClassifyNblChain2WithCount_Exit(st) ==
    LET Q == Classify2Queue(st.CurrentIndex)
        app == NdisAppendNblChainToNblCountedQueueFast(st.Next, st.Queues[Q], st.First,
                                                       st.Previous, st.Count)
    IN  [st EXCEPT !.Next = app.Next, !.Queues[Q] = app.Q,
                   !.appends = Appending(st, st.First, st.Previous),
                   !.pc = "done"]

Classify2WithCountCall ==
    /\ s.op = "idle"
    /\ \A n \in 1 .. input.len : input.cls[n] \in {0, 1}
    /\ \E prior \in PriorChoices(2) :
          s' = NdisClassifyNblChain2WithCount_Entry(s, prior)
    /\ UNCHANGED input

Classify2WithCountIterate ==
    /\ s.op = "Classify2WithCount" /\ s.pc = "loop"
    /\ s.Nbl # NULL
    /\ s' = NdisClassifyNblChain2WithCount_Loop(s)
    /\ UNCHANGED input

Classify2WithCountReturn ==
    /\ s.op = "Classify2WithCount" /\ s.pc = "loop"
    /\ s.Nbl = NULL
    /\ s' = NdisClassifyNblChain2WithCount_Exit(s)
    /\ UNCHANGED input

\* -------------------------------------- NdisClassifyNblChainByIndexWithCount
NdisClassifyNblChainByIndexWithCount_Entry(st, prior, NumberOfQueues) ==
    LET Nbl == st.NblChain
        ThisIndex == ClassificationCallback(Nbl)
    IN  [st EXCEPT !.op = "ByIndexWithCount", !.pc = "loop",
                   !.Next = HeapWithPrior(input.len, prior, NumberOfQueues),
                   !.Queues = [q \in 0 .. (NumberOfQueues - 1) |->
                                  PriorCountedQueue(prior, q)],
                   !.NumberOfQueues = NumberOfQueues,
                   !.prior = prior,
                   !.First = Nbl,
                   !.Count = 1,
                   !.classified = Classified(st, Nbl),
                   !.ThisIndex = ThisIndex,
                   !.CurrentIndex = ThisIndex,
                   !.Previous = Nbl,
                   !.Nbl = st.Next[Nbl]]

\* CurrentIndex is not set to the index of the run that starts.
NdisClassifyNblChainByIndexWithCount_Loop_KeepsCurrentIndex(st) ==
    LET Nbl == st.Nbl
        ThisIndex == ClassificationCallback(Nbl)
        cut == [st.Next EXCEPT ![st.Previous] = NULL]
        app == NdisAppendNblChainToNblCountedQueueFast(cut, st.Queues[st.CurrentIndex],
                                                       st.First, st.Previous, st.Count)
        t == [st EXCEPT !.classified = Classified(st, Nbl), !.ThisIndex = ThisIndex]
        u == IF ThisIndex # st.CurrentIndex
             THEN [t EXCEPT !.Next = app.Next,
                            !.cuts = Cut(st, st.Previous),
                            !.Queues[st.CurrentIndex] = app.Q,
                            !.appends = Appending(st, st.First, st.Previous),
                            !.First = Nbl,
                            !.Count = 1]
             ELSE [t EXCEPT !.Count = @ + 1]
    IN  [u EXCEPT !.Previous = Nbl, !.Nbl = u.Next[Nbl]]

\* Count is not set back to 1 when a new run starts.
NdisClassifyNblChainByIndexWithCount_Loop_NoReset(st) ==
    LET Nbl == st.Nbl
        ThisIndex == ClassificationCallback(Nbl)
        cut == [st.Next EXCEPT ![st.Previous] = NULL]
        app == NdisAppendNblChainToNblCountedQueueFast(cut, st.Queues[st.CurrentIndex],
                                                       st.First, st.Previous, st.Count)
        t == [st EXCEPT !.classified = Classified(st, Nbl), !.ThisIndex = ThisIndex]
        u == IF ThisIndex # st.CurrentIndex
             THEN [t EXCEPT !.Next = app.Next,
                            !.cuts = Cut(st, st.Previous),
                            !.Queues[st.CurrentIndex] = app.Q,
                            !.appends = Appending(st, st.First, st.Previous),
                            !.CurrentIndex = ThisIndex,
                            !.First = Nbl]
             ELSE [t EXCEPT !.Count = @ + 1]
    IN  [u EXCEPT !.Previous = Nbl, !.Nbl = u.Next[Nbl]]

NdisClassifyNblChainByIndexWithCount_Loop(st) ==
    LET Nbl == st.Nbl
        ThisIndex == ClassificationCallback(Nbl)
        cut == [st.Next EXCEPT ![st.Previous] = NULL]
        app == NdisAppendNblChainToNblCountedQueueFast(cut, st.Queues[st.CurrentIndex],
                                                       st.First, st.Previous, st.Count)
        t == [st EXCEPT !.classified = Classified(st, Nbl), !.ThisIndex = ThisIndex]
        u == IF ThisIndex # st.CurrentIndex
             THEN [t EXCEPT !.Next = app.Next,
                            !.cuts = Cut(st, st.Previous),
                            !.Queues[st.CurrentIndex] = app.Q,
                            !.appends = Appending(st, st.First, st.Previous),
                            !.CurrentIndex = ThisIndex,
                            !.First = Nbl,
                            !.Count = 1]
             ELSE [t EXCEPT !.Count = @ + 1]
    IN  [u EXCEPT !.Previous = Nbl, !.Nbl = u.Next[Nbl]]

\* The final append is to Queues[ThisIndex], not Queues[CurrentIndex].
NdisClassifyNblChainByIndexWithCount_Exit(st) ==
    LET app == NdisAppendNblChainToNblCountedQueueFast(st.Next, st.Queues[st.ThisIndex],
                                                       st.First, st.Previous, st.Count)
    IN  [st EXCEPT !.Next = app.Next, !.Queues[st.ThisIndex] = app.Q,
                   !.appends = Appending(st, st.First, st.Previous),
                   !.pc = "done"]

ByIndexWithCountCall ==
    /\ s.op = "idle"
    /\ \E NumberOfQueues \in 1 .. MaxQueues :
          /\ \A n \in 1 .. input.len : input.cls[n] < NumberOfQueues
          /\ \E prior \in PriorChoices(NumberOfQueues) :
                s' = NdisClassifyNblChainByIndexWithCount_Entry(s, prior, NumberOfQueues)
    /\ UNCHANGED input

ByIndexWithCountIterate ==
    /\ s.op = "ByIndexWithCount" /\ s.pc = "loop"
    /\ s.Nbl # NULL
    /\ s' = NdisClassifyNblChainByIndexWithCount_Loop(s)
    /\ UNCHANGED input

ByIndexWithCountReturn ==
    /\ s.op = "ByIndexWithCount" /\ s.pc = "loop"
    /\ s.Nbl = NULL
    /\ s' = NdisClassifyNblChainByIndexWithCount_Exit(s)
    /\ UNCHANGED input

\* ----------------------------------------------- NdisClassifyNblChainByValue
NdisClassifyNblChainByValue_Entry(st) ==
    LET FirstNbl == st.NblChain
        Nbl == FirstNbl
    IN  [st EXCEPT !.op = "ByValue", !.pc = "loop",
                   !.Queue = NdisInitializeNblQueue,
                   !.FirstNbl = FirstNbl,
                   !.PreviousNbl = FirstNbl,
                   !.Nbl = Nbl,
                   !.classified = Classified(st, Nbl),
                   !.TargetClassification = ClassificationCallback(Nbl)]

\* The callback is given the classification of the next run.
ByValueFlushRun_NextKey(t, Nbl, NextClassification) ==
    LET cut == [t.Next EXCEPT ![t.PreviousNbl] = NULL]
        app == NdisAppendNblChainToNblQueueFast(cut, t.Queue, t.FirstNbl, t.PreviousNbl)
        u == [t EXCEPT !.Next = app.Next, !.Queue = app.Q]
    IN  [u EXCEPT !.flushed = FlushCallback(u, NextClassification, u.Queue),
                  !.Queue = NdisInitializeNblQueue,
                  !.FirstNbl = Nbl,
                  !.TargetClassification = NextClassification,
                  !.PreviousNbl = Nbl]

\* The run is cut and queued, but the callback is not made and the queue is
\* not initialized again: the run is merged into the next one.
ByValueFlushRun_NoFlush(t, Nbl, NextClassification) ==
    LET cut == [t.Next EXCEPT ![t.PreviousNbl] = NULL]
        app == NdisAppendNblChainToNblQueueFast(cut, t.Queue, t.FirstNbl, t.PreviousNbl)
        u == [t EXCEPT !.Next = app.Next, !.Queue = app.Q]
    IN  [u EXCEPT !.FirstNbl = Nbl,
                  !.TargetClassification = NextClassification,
                  !.PreviousNbl = Nbl]

\* The body of if (NextClassification != TargetClassification), then
\* PreviousNbl = Nbl.
ByValueFlushRun(t, Nbl, NextClassification) ==
    LET cut == [t.Next EXCEPT ![t.PreviousNbl] = NULL]
        app == NdisAppendNblChainToNblQueueFast(cut, t.Queue, t.FirstNbl, t.PreviousNbl)
        u == [t EXCEPT !.Next = app.Next, !.Queue = app.Q]
    IN  [u EXCEPT !.flushed = FlushCallback(u, u.TargetClassification, u.Queue),
                  !.Queue = NdisInitializeNblQueue,
                  !.FirstNbl = Nbl,
                  !.TargetClassification = NextClassification,
                  !.PreviousNbl = Nbl]

\* One pass through the body of while (TRUE).
NdisClassifyNblChainByValue_Loop(st) ==
    LET Nbl == st.Next[st.Nbl]
    IN  IF Nbl = NULL
        THEN LET app == NdisAppendNblChainToNblQueueFast(st.Next, st.Queue,
                                                         st.FirstNbl, st.PreviousNbl)
                 t == [st EXCEPT !.Nbl = Nbl, !.Next = app.Next, !.Queue = app.Q]
             IN  [t EXCEPT !.flushed = FlushCallback(t, t.TargetClassification, t.Queue),
                           !.pc = "done"]
        ELSE LET NextClassification == ClassificationCallback(Nbl)
                 t == [st EXCEPT !.Nbl = Nbl, !.classified = Classified(st, Nbl)]
             IN  IF NextClassification # st.TargetClassification
                 THEN ByValueFlushRun(t, Nbl, NextClassification)
                 ELSE [t EXCEPT !.PreviousNbl = Nbl]

ByValueCall ==
    /\ s.op = "idle"
    /\ s' = NdisClassifyNblChainByValue_Entry(s)
    /\ UNCHANGED input

ByValueIterate ==
    /\ s.op = "ByValue" /\ s.pc = "loop"
    /\ s' = NdisClassifyNblChainByValue_Loop(s)
    /\ UNCHANGED input

\* -------------------------------------- NdisClassifyNblChainByValueLookahead
\* ARRAYSIZE(Queue) is st.Depth; the slots are 0 .. Depth-1.
Slots(Depth) == 0 .. (Depth - 1)

\* The scan without the comparison of classifications: only a slot that is
\* not valid is found.
LookaheadScan_EmptyOnly(Valid, TargetClassification, NextClassification, Depth) ==
    LET hit == {i \in Slots(Depth) : Valid[i] = FALSE}
    IN  IF hit = {} THEN Depth ELSE CHOOSE i \in hit : \A j \in hit : i <= j

\* A slot that is not valid is taken before a slot that holds the
\* classification.
LookaheadScan_EmptyFirst(Valid, TargetClassification, NextClassification, Depth) ==
    LET empty == {i \in Slots(Depth) : Valid[i] = FALSE}
        hit == {i \in Slots(Depth) :
                   \/ Valid[i] = FALSE
                   \/ TargetClassification[i] = NextClassification}
    IN  IF empty # {} THEN CHOOSE i \in empty : \A j \in empty : i <= j
        ELSE IF hit = {} THEN Depth ELSE CHOOSE i \in hit : \A j \in hit : i <= j

\* The scan for (i = 0; i < ARRAYSIZE(Queue); i++): the first slot that is
\* not valid or whose classification is NextClassification; Depth if the
\* loop runs off its end.
LookaheadScan(Valid, TargetClassification, NextClassification, Depth) ==
    LET hit == {i \in Slots(Depth) :
                   \/ Valid[i] = FALSE
                   \/ TargetClassification[i] = NextClassification}
    IN  IF hit = {} THEN Depth ELSE CHOOSE i \in hit : \A j \in hit : i <= j

\* The current slot itself is evicted.
EvictionIndex_Current(PreviousIndex, Depth) == PreviousIndex

EvictionIndex(PreviousIndex, Depth) == (PreviousIndex + 1) % Depth

NdisClassifyNblChainByValueLookahead_Entry(st, Depth) ==
    LET FirstNbl == st.NblChain
        Nbl == FirstNbl
        PreviousIndex == 0
    IN  [st EXCEPT !.op = "Lookahead", !.pc = "loop",
                   !.Depth = Depth,
                   !.Valid = [i \in Slots(Depth) |-> i = 0],
                   !.FirstNbl = FirstNbl,
                   !.PreviousNbl = FirstNbl,
                   !.Nbl = Nbl,
                   !.PreviousIndex = PreviousIndex,
                   !.Queue = [i \in Slots(Depth) |->
                                 IF i = PreviousIndex THEN NdisInitializeNblQueue ELSE Uninit],
                   !.classified = Classified(st, Nbl),
                   !.TargetClassification =
                       [i \in Slots(Depth) |->
                           IF i = PreviousIndex THEN ClassificationCallback(Nbl) ELSE Uninit]]

\* if (Valid[i] == FALSE) { ... goto Found; }, then PreviousNbl = Nbl.
LookaheadNewRun(u, i, Nbl, NextClassification) ==
    [u EXCEPT !.FirstNbl = Nbl,
              !.PreviousIndex = i,
              !.Valid[i] = TRUE,
              !.TargetClassification[i] = NextClassification,
              !.Queue[i] = NdisInitializeNblQueue,
              !.PreviousNbl = Nbl]

\* The run is resumed without making the found slot the current one.
LookaheadResume_KeepsIndex(u, i, Nbl) ==
    [u EXCEPT !.FirstNbl = Nbl,
              !.PreviousNbl = Nbl]

\* if (TargetClassification[i] == NextClassification) { ... goto Found; },
\* then PreviousNbl = Nbl.
LookaheadResume(u, i, Nbl) ==
    [u EXCEPT !.FirstNbl = Nbl,
              !.PreviousIndex = i,
              !.PreviousNbl = Nbl]

\* The evicted slot's queue is flushed but not initialized again.
LookaheadEvict_NoReinit(u, Nbl, NextClassification) ==
    LET E == EvictionIndex(u.PreviousIndex, u.Depth)
    IN  [u EXCEPT !.flushed = FlushCallback(u, u.TargetClassification[E], u.Queue[E]),
                  !.FirstNbl = Nbl,
                  !.PreviousIndex = E,
                  !.TargetClassification[E] = NextClassification,
                  !.PreviousNbl = Nbl]

\* The statements after the scan found no slot, then PreviousNbl = Nbl.
LookaheadEvict(u, Nbl, NextClassification) ==
    LET E == EvictionIndex(u.PreviousIndex, u.Depth)
    IN  [u EXCEPT !.flushed = FlushCallback(u, u.TargetClassification[E], u.Queue[E]),
                  !.FirstNbl = Nbl,
                  !.PreviousIndex = E,
                  !.TargetClassification[E] = NextClassification,
                  !.Queue[E] = NdisInitializeNblQueue,
                  !.PreviousNbl = Nbl]

\* One pass through the body of while (TRUE).
NdisClassifyNblChainByValueLookahead_Loop(st) ==
    LET Nbl == st.Next[st.Nbl]
        P == st.PreviousIndex
    IN  IF Nbl = NULL
        THEN LET app == NdisAppendNblChainToNblQueueFast(st.Next, st.Queue[P],
                                                         st.FirstNbl, st.PreviousNbl)
             IN  [st EXCEPT !.Nbl = Nbl, !.Next = app.Next, !.Queue[P] = app.Q,
                            !.pc = "flush", !.i = 0]
        ELSE LET NextClassification == ClassificationCallback(Nbl)
                 t == [st EXCEPT !.Nbl = Nbl, !.classified = Classified(st, Nbl)]
             IN  IF t.TargetClassification[P] # NextClassification
                 THEN LET cut == [t.Next EXCEPT ![t.PreviousNbl] = NULL]
                          app == NdisAppendNblChainToNblQueueFast(cut, t.Queue[P],
                                                                  t.FirstNbl, t.PreviousNbl)
                          u == [t EXCEPT !.Next = app.Next, !.Queue[P] = app.Q]
                          i == LookaheadScan(u.Valid, u.TargetClassification,
                                             NextClassification, u.Depth)
                      IN  IF i < u.Depth /\ u.Valid[i] = FALSE
                          THEN LookaheadNewRun(u, i, Nbl, NextClassification)
                          ELSE IF i < u.Depth
                          THEN LookaheadResume(u, i, Nbl)
                          ELSE LookaheadEvict(u, Nbl, NextClassification)
                 ELSE [t EXCEPT !.PreviousNbl = Nbl]

\* The final loop without its test of Valid[i]: a slot never used is flushed
\* too, and the callback finds nothing in it.
NdisClassifyNblChainByValueLookahead_Flush_NoValidTest(st) ==
    IF st.i < st.Depth
    THEN [st EXCEPT !.flushed =
                        IF st.Valid[st.i]
                        THEN FlushCallback(st, st.TargetClassification[st.i], st.Queue[st.i])
                        ELSE Append(st.flushed, [key |-> Uninit, nbls |-> <<>>]),
                    !.i = st.i + 1]
    ELSE [st EXCEPT !.pc = "done"]

\* The final loop leaves after its first callback.
NdisClassifyNblChainByValueLookahead_Flush_StopsAfterFirst(st) ==
    IF st.i < 1 /\ st.Valid[st.i] # FALSE
    THEN [st EXCEPT !.flushed = FlushCallback(st, st.TargetClassification[st.i],
                                              st.Queue[st.i]),
                    !.i = st.i + 1]
    ELSE [st EXCEPT !.pc = "done"]

\* One pass through the final for (i = 0; i < ARRAYSIZE(Queue); i++).
NdisClassifyNblChainByValueLookahead_Flush(st) ==
    IF st.i < st.Depth /\ st.Valid[st.i] # FALSE
    THEN [st EXCEPT !.flushed = FlushCallback(st, st.TargetClassification[st.i],
                                              st.Queue[st.i]),
                    !.i = st.i + 1]
    ELSE [st EXCEPT !.pc = "done"]

LookaheadCall ==
    /\ s.op = "idle"
    /\ \E Depth \in 1 .. NDIS_CLASSIFY_NBL_LOOKHEAD_DEPTH :
          s' = NdisClassifyNblChainByValueLookahead_Entry(s, Depth)
    /\ UNCHANGED input

LookaheadIterate ==
    /\ s.op = "Lookahead" /\ s.pc = "loop"
    /\ s' = NdisClassifyNblChainByValueLookahead_Loop(s)
    /\ UNCHANGED input

LookaheadFinalFlush ==
    /\ s.op = "Lookahead" /\ s.pc = "flush"
    /\ s' = NdisClassifyNblChainByValueLookahead_Flush(s)
    /\ UNCHANGED input

\* ---------------------------------------- NdisPartialClassifyNblChainByValue
\* The caller is the loop of the header's example: it calls the routine on
\* the remainder and dispatches the queue, until the remainder is NULL.
NdisPartialClassifyNblChainByValue_Entry(st, ResultPresent) ==
    LET FirstNbl == st.NblChain
        Nbl == FirstNbl
    IN  [st EXCEPT !.op = "Partial", !.pc = "loop",
                   !.ResultPresent = ResultPresent,
                   !.entry = [Next |-> st.Next, NblChain |-> st.NblChain],
                   !.HomogenousQueue = NdisInitializeNblQueue,
                   !.FirstNbl = FirstNbl,
                   !.PreviousNbl = FirstNbl,
                   !.Nbl = Nbl,
                   !.classified = Classified(st, Nbl),
                   !.TargetClassification = ClassificationCallback(Nbl)]

\* The remainder starts one NBL too late.
NdisPartialClassifyNblChainByValue_Loop_SkipsOne(st) ==
    LET Nbl == st.Next[st.Nbl]
    IN  IF Nbl = NULL
        THEN [st EXCEPT !.Nbl = Nbl, !.NblChain = NULL, !.pc = "tail"]
        ELSE LET NextClassification == ClassificationCallback(Nbl)
                 t == [st EXCEPT !.Nbl = Nbl, !.classified = Classified(st, Nbl)]
             IN  IF NextClassification # st.TargetClassification
                 THEN [t EXCEPT !.Next[t.PreviousNbl] = NULL,
                                !.NblChain = t.Next[Nbl],
                                !.pc = "tail"]
                 ELSE [t EXCEPT !.PreviousNbl = Nbl]

\* One pass through the body of while (TRUE).
NdisPartialClassifyNblChainByValue_Loop(st) ==
    LET Nbl == st.Next[st.Nbl]
    IN  IF Nbl = NULL
        THEN [st EXCEPT !.Nbl = Nbl, !.NblChain = NULL, !.pc = "tail"]
        ELSE LET NextClassification == ClassificationCallback(Nbl)
                 t == [st EXCEPT !.Nbl = Nbl, !.classified = Classified(st, Nbl)]
             IN  IF NextClassification # st.TargetClassification
                 THEN [t EXCEPT !.Next[t.PreviousNbl] = NULL,
                                !.NblChain = Nbl,
                                !.pc = "tail"]
                 ELSE [t EXCEPT !.PreviousNbl = Nbl]

\* The statements after the loop, then the caller's dispatch of the queue
\* and its test while (incomingNbls != NULL).
NdisPartialClassifyNblChainByValue_Exit(st) ==
    LET app == NdisAppendNblChainToNblQueueFast(st.Next, st.HomogenousQueue,
                                                st.FirstNbl, st.PreviousNbl)
        t == [st EXCEPT !.Next = app.Next,
                        !.HomogenousQueue = app.Q,
                        !.ClassificationResult =
                            IF st.ResultPresent THEN st.TargetClassification ELSE @]
    IN  [t EXCEPT !.flushed = FlushCallback(t, t.ClassificationResult, t.HomogenousQueue),
                  !.returns = t.returns + 1,
                  !.pc = IF t.NblChain # NULL THEN "call" ELSE "done"]

PartialCall ==
    /\ \/ s.op = "idle"
       \/ s.op = "Partial" /\ s.pc = "call"
    /\ \E ResultPresent \in (IF s.op = "idle" THEN BOOLEAN ELSE {s.ResultPresent}) :
          s' = NdisPartialClassifyNblChainByValue_Entry(s, ResultPresent)
    /\ UNCHANGED input

PartialIterate ==
    /\ s.op = "Partial" /\ s.pc = "loop"
    /\ s' = NdisPartialClassifyNblChainByValue_Loop(s)
    /\ UNCHANGED input

PartialReturn ==
    /\ s.op = "Partial" /\ s.pc = "tail"
    /\ s' = NdisPartialClassifyNblChainByValue_Exit(s)
    /\ UNCHANGED input

\* ------------------------------------- a flush callback that takes the batch
\* The callback dispatches the batch, as ReceivePacketsOnVlan does: by the
\* time it returns, the Next field of every NBL of the batch has been
\* rewritten (here: to the first NBL of the batch).  In every pass through a
\* loop body the callback is the last statement that looks at the heap, so
\* the rewriting is applied to the heap the pass leaves.
Dispatched(next, nbls) ==
    [n \in Nbls |->
        IF \E j \in 1 .. Len(nbls) : nbls[j] = n THEN nbls[1] ELSE next[n]]

WithDispatch(st, t) ==
    IF Len(t.flushed) > Len(st.flushed)
    THEN [t EXCEPT !.Next = Dispatched(t.Next, t.flushed[Len(t.flushed)].nbls)]
    ELSE t

ByValueIterateDispatching ==
    /\ s.op = "ByValue" /\ s.pc = "loop"
    /\ s' = WithDispatch(s, NdisClassifyNblChainByValue_Loop(s))
    /\ UNCHANGED input

LookaheadIterateDispatching ==
    /\ s.op = "Lookahead" /\ s.pc = "loop"
    /\ s' = WithDispatch(s, NdisClassifyNblChainByValueLookahead_Loop(s))
    /\ UNCHANGED input

LookaheadFinalFlushDispatching ==
    /\ s.op = "Lookahead" /\ s.pc = "flush"
    /\ s' = WithDispatch(s, NdisClassifyNblChainByValueLookahead_Flush(s))
    /\ UNCHANGED input

\* -------------------------------------- NdisClassifyNblChainByValueWithCount
NdisClassifyNblChainByValueWithCount_Entry(st) ==
    LET FirstNbl == st.NblChain
        Nbl == FirstNbl
    IN  [st EXCEPT !.op = "ByValueWithCount", !.pc = "loop",
                   !.Queue = NdisInitializeNblCountedQueue,
                   !.FirstNbl = FirstNbl,
                   !.PreviousNbl = FirstNbl,
                   !.Nbl = Nbl,
                   !.classified = Classified(st, Nbl),
                   !.TargetClassification = ClassificationCallback(Nbl),
                   !.Count = 1]

\* One pass through the body of while (TRUE).
NdisClassifyNblChainByValueWithCount_Loop(st) ==
    LET Nbl == st.Next[st.Nbl]
    IN  IF Nbl = NULL
        THEN LET app == NdisAppendNblChainToNblCountedQueueFast(
                            st.Next, st.Queue, st.FirstNbl, st.PreviousNbl, st.Count)
                 t == [st EXCEPT !.Nbl = Nbl, !.Next = app.Next, !.Queue = app.Q]
             IN  [t EXCEPT !.flushed = FlushWithCountCallback(t, t.TargetClassification,
                                                              t.Queue),
                           !.pc = "done"]
        ELSE LET NextClassification == ClassificationCallback(Nbl)
                 t == [st EXCEPT !.Nbl = Nbl, !.classified = Classified(st, Nbl)]
             IN  IF NextClassification = st.TargetClassification
                 THEN [t EXCEPT !.Count = @ + 1, !.PreviousNbl = Nbl]
                 ELSE LET cut == [t.Next EXCEPT ![t.PreviousNbl] = NULL]
                          app == NdisAppendNblChainToNblCountedQueueFast(
                                     cut, t.Queue, t.FirstNbl, t.PreviousNbl, t.Count)
                          u == [t EXCEPT !.Next = app.Next, !.Queue = app.Q]
                      IN  [u EXCEPT !.flushed = FlushWithCountCallback(
                                                    u, u.TargetClassification, u.Queue),
                                    !.Queue = NdisInitializeNblCountedQueue,
                                    !.FirstNbl = Nbl,
                                    !.TargetClassification = NextClassification,
                                    !.Count = 1,
                                    !.PreviousNbl = Nbl]

ByValueWithCountCall ==
    /\ s.op = "idle"
    /\ s' = NdisClassifyNblChainByValueWithCount_Entry(s)
    /\ UNCHANGED input

ByValueWithCountIterate ==
    /\ s.op = "ByValueWithCount" /\ s.pc = "loop"
    /\ s' = NdisClassifyNblChainByValueWithCount_Loop(s)
    /\ UNCHANGED input

\* ----------------------------- NdisClassifyNblChainByValueLookaheadWithCount
\* Count[i] is the length of slot i's run in progress, and 0 for a slot
\* never used.
LookaheadWithCountScan(Count, TargetClassification, NextClassification, Depth) ==
    LET hit == {i \in Slots(Depth) :
                   \/ Count[i] = 0
                   \/ TargetClassification[i] = NextClassification}
    IN  IF hit = {} THEN Depth ELSE CHOOSE i \in hit : \A j \in hit : i <= j

NdisClassifyNblChainByValueLookaheadWithCount_Entry(st, Depth) ==
    LET FirstNbl == st.NblChain
        Nbl == FirstNbl
        PreviousIndex == 0
    IN  [st EXCEPT !.op = "LookaheadWithCount", !.pc = "loop",
                   !.Depth = Depth,
                   !.Count = [i \in Slots(Depth) |-> IF i = 0 THEN 1 ELSE 0],
                   !.FirstNbl = FirstNbl,
                   !.PreviousNbl = FirstNbl,
                   !.Nbl = Nbl,
                   !.PreviousIndex = PreviousIndex,
                   !.Queue = [i \in Slots(Depth) |->
                                 IF i = PreviousIndex THEN NdisInitializeNblCountedQueue
                                                      ELSE Uninit],
                   !.classified = Classified(st, Nbl),
                   !.TargetClassification =
                       [i \in Slots(Depth) |->
                           IF i = PreviousIndex THEN ClassificationCallback(Nbl) ELSE Uninit]]

\* if (Count[i] == 0) { ... goto Found; }, then PreviousNbl = Nbl.
LookaheadWithCountNewRun(u, i, Nbl, NextClassification) ==
    [u EXCEPT !.FirstNbl = Nbl,
              !.PreviousIndex = i,
              !.Count[i] = 1,
              !.TargetClassification[i] = NextClassification,
              !.Queue[i] = NdisInitializeNblCountedQueue,
              !.PreviousNbl = Nbl]

\* The slot's count of its earlier run is kept and goes on growing.
LookaheadWithCountResume_KeepsCount(u, i, Nbl) ==
    [u EXCEPT !.FirstNbl = Nbl,
              !.PreviousIndex = i,
              !.Count[i] = @ + 1,
              !.PreviousNbl = Nbl]

\* if (TargetClassification[i] == NextClassification) { ... goto Found; },
\* then PreviousNbl = Nbl.
LookaheadWithCountResume(u, i, Nbl) ==
    [u EXCEPT !.FirstNbl = Nbl,
              !.PreviousIndex = i,
              !.Count[i] = 1,
              !.PreviousNbl = Nbl]

\* The statements after the scan found no slot, then PreviousNbl = Nbl.
LookaheadWithCountEvict(u, Nbl, NextClassification) ==
    LET E == EvictionIndex(u.PreviousIndex, u.Depth)
    IN  [u EXCEPT !.flushed = FlushWithCountCallback(u, u.TargetClassification[E],
                                                     u.Queue[E]),
                  !.FirstNbl = Nbl,
                  !.PreviousIndex = E,
                  !.Count[E] = 1,
                  !.TargetClassification[E] = NextClassification,
                  !.Queue[E] = NdisInitializeNblCountedQueue,
                  !.PreviousNbl = Nbl]

\* One pass through the body of while (TRUE).
NdisClassifyNblChainByValueLookaheadWithCount_Loop(st) ==
    LET Nbl == st.Next[st.Nbl]
        P == st.PreviousIndex
    IN  IF Nbl = NULL
        THEN LET app == NdisAppendNblChainToNblCountedQueueFast(
                            st.Next, st.Queue[P], st.FirstNbl, st.PreviousNbl, st.Count[P])
             IN  [st EXCEPT !.Nbl = Nbl, !.Next = app.Next, !.Queue[P] = app.Q,
                            !.pc = "flush", !.i = 0]
        ELSE LET NextClassification == ClassificationCallback(Nbl)
                 t == [st EXCEPT !.Nbl = Nbl, !.classified = Classified(st, Nbl)]
             IN  IF t.TargetClassification[P] = NextClassification
                 THEN [t EXCEPT !.Count[P] = @ + 1, !.PreviousNbl = Nbl]
                 ELSE LET cut == [t.Next EXCEPT ![t.PreviousNbl] = NULL]
                          app == NdisAppendNblChainToNblCountedQueueFast(
                                     cut, t.Queue[P], t.FirstNbl, t.PreviousNbl, t.Count[P])
                          u == [t EXCEPT !.Next = app.Next, !.Queue[P] = app.Q]
                          i == LookaheadWithCountScan(u.Count, u.TargetClassification,
                                                      NextClassification, u.Depth)
                      IN  IF i < u.Depth /\ u.Count[i] = 0
                          THEN LookaheadWithCountNewRun(u, i, Nbl, NextClassification)
                          ELSE IF i < u.Depth
                          THEN LookaheadWithCountResume(u, i, Nbl)
                          ELSE LookaheadWithCountEvict(u, Nbl, NextClassification)

\* One pass through the final for (i = 0; i < ARRAYSIZE(Queue); i++).
NdisClassifyNblChainByValueLookaheadWithCount_Flush(st) ==
    IF st.i < st.Depth /\ st.Count[st.i] # 0
    THEN [st EXCEPT !.flushed = FlushWithCountCallback(st, st.TargetClassification[st.i],
                                                       st.Queue[st.i]),
                    !.i = st.i + 1]
    ELSE [st EXCEPT !.pc = "done"]

LookaheadWithCountCall ==
    /\ s.op = "idle"
    /\ \E Depth \in 1 .. NDIS_CLASSIFY_NBL_LOOKHEAD_DEPTH :
          s' = NdisClassifyNblChainByValueLookaheadWithCount_Entry(s, Depth)
    /\ UNCHANGED input

LookaheadWithCountIterate ==
    /\ s.op = "LookaheadWithCount" /\ s.pc = "loop"
    /\ s' = NdisClassifyNblChainByValueLookaheadWithCount_Loop(s)
    /\ UNCHANGED input

LookaheadWithCountFinalFlush ==
    /\ s.op = "LookaheadWithCount" /\ s.pc = "flush"
    /\ s' = NdisClassifyNblChainByValueLookaheadWithCount_Flush(s)
    /\ UNCHANGED input

\* -------------------------------- NdisPartialClassifyNblChainByValueWithCount
\* The caller is the same loop as for NdisPartialClassifyNblChainByValue.
NdisPartialClassifyNblChainByValueWithCount_Entry(st, ResultPresent) ==
    LET FirstNbl == st.NblChain
        Nbl == FirstNbl
    IN  [st EXCEPT !.op = "PartialWithCount", !.pc = "loop",
                   !.ResultPresent = ResultPresent,
                   !.entry = [Next |-> st.Next, NblChain |-> st.NblChain],
                   !.HomogenousQueue = NdisInitializeNblCountedQueue,
                   !.FirstNbl = FirstNbl,
                   !.PreviousNbl = FirstNbl,
                   !.Nbl = Nbl,
                   !.classified = Classified(st, Nbl),
                   !.TargetClassification = ClassificationCallback(Nbl),
                   !.Count = 1]

\* One pass through the body of while (TRUE); no statement of it writes Count.
NdisPartialClassifyNblChainByValueWithCount_Loop(st) ==
    LET Nbl == st.Next[st.Nbl]
    IN  IF Nbl = NULL
        THEN [st EXCEPT !.Nbl = Nbl, !.NblChain = NULL, !.pc = "tail"]
        ELSE LET NextClassification == ClassificationCallback(Nbl)
                 t == [st EXCEPT !.Nbl = Nbl, !.classified = Classified(st, Nbl)]
             IN  IF NextClassification # st.TargetClassification
                 THEN [t EXCEPT !.Next[t.PreviousNbl] = NULL,
                                !.NblChain = Nbl,
                                !.pc = "tail"]
                 ELSE [t EXCEPT !.PreviousNbl = Nbl]

\* The statements after the loop, then the caller's dispatch of the queue
\* and its test of the remainder.
NdisPartialClassifyNblChainByValueWithCount_Exit(st) ==
    LET app == NdisAppendNblChainToNblCountedQueueFast(st.Next, st.HomogenousQueue,
                                                       st.FirstNbl, st.PreviousNbl, st.Count)
        t == [st EXCEPT !.Next = app.Next,
                        !.HomogenousQueue = app.Q,
                        !.ClassificationResult =
                            IF st.ResultPresent THEN st.TargetClassification ELSE @]
    IN  [t EXCEPT !.flushed = FlushWithCountCallback(t, t.ClassificationResult,
                                                     t.HomogenousQueue),
                  !.returns = t.returns + 1,
                  !.pc = IF t.NblChain # NULL THEN "call" ELSE "done"]

PartialWithCountCall ==
    /\ \/ s.op = "idle"
       \/ s.op = "PartialWithCount" /\ s.pc = "call"
    /\ \E ResultPresent \in (IF s.op = "idle" THEN BOOLEAN ELSE {s.ResultPresent}) :
          s' = NdisPartialClassifyNblChainByValueWithCount_Entry(s, ResultPresent)
    /\ UNCHANGED input

PartialWithCountIterate ==
    /\ s.op = "PartialWithCount" /\ s.pc = "loop"
    /\ s' = NdisPartialClassifyNblChainByValueWithCount_Loop(s)
    /\ UNCHANGED input

PartialWithCountReturn ==
    /\ s.op = "PartialWithCount" /\ s.pc = "tail"
    /\ s' = NdisPartialClassifyNblChainByValueWithCount_Exit(s)
    /\ UNCHANGED input

\* ------------------------------------------- a caller of the queue routines
\* The caller holds the chain s.NblChain and a queue s.Queue.  For an append
\* it cuts the first k NBLs off its chain and appends them; every appended
\* chain is recorded in s.flushed and every pop counted in s.returns.  The
\* queue routines never look at a classification, so the caller's NBLs all
\* have classification 0.
CallerStarts(st, op, Queue) ==
    [st EXCEPT !.op = op, !.pc = "ready", !.Queue = Queue]

\* The caller's chain cut after its k-th NBL.
CallerCuts(st, k) ==
    LET chain == NblsInChain(st.Next, st.NblChain)
    IN  [First |-> chain[1], Last |-> chain[k],
         Next |-> [st.Next EXCEPT ![chain[k]] = NULL],
         Rest |-> st.Next[chain[k]],
         Nbls |-> SubSeq(chain, 1, k)]

CallerLength(st) == Len(NblsInChain(st.Next, st.NblChain))

CallerAppended(st, how, cut, app) ==
    [st EXCEPT !.Next = app.Next, !.Queue = app.Q, !.NblChain = cut.Rest,
               !.appends = Appending(st, cut.First, cut.Last),
               !.flushed = Append(@, [key |-> how, nbls |-> cut.Nbls])]

QueueInit ==
    /\ s.op = "idle"
    /\ \A n \in 1 .. input.len : input.cls[n] = 0
    /\ s' = CallerStarts(s, "Queue", NdisInitializeNblQueue)
    /\ UNCHANGED input

QueueAppendChain ==
    /\ s.op = "Queue"
    /\ \E k \in 1 .. CallerLength(s) :
          LET cut == CallerCuts(s, k)
          IN  s' = CallerAppended(s, "append_chain", cut,
                       NdisAppendNblChainToNblQueueFast(cut.Next, s.Queue, cut.First, cut.Last))
    /\ UNCHANGED input

QueueAppendSingle ==
    /\ s.op = "Queue"
    /\ CallerLength(s) >= 1
    /\ LET cut == CallerCuts(s, 1)
       IN  s' = CallerAppended(s, "append_single", cut,
                    NdisAppendSingleNblToNblQueue(cut.Next, s.Queue, cut.First))
    /\ UNCHANGED input

QueueFromChain ==
    /\ s.op = "Queue"
    /\ \E k \in 1 .. CallerLength(s) :
          LET cut == CallerCuts(s, k)
          IN  s' = CallerAppended(s, "from_chain", cut,
                       NdisAppendNblChainToNblQueue(cut.Next, s.Queue, cut.First))
    /\ UNCHANGED input

CountedQueueInit ==
    /\ s.op = "idle"
    /\ \A n \in 1 .. input.len : input.cls[n] = 0
    /\ s' = CallerStarts(s, "CountedQueue", NdisInitializeNblCountedQueue)
    /\ UNCHANGED input

CountedQueueAppendChain ==
    /\ s.op = "CountedQueue"
    /\ \E k \in 1 .. CallerLength(s) :
          LET cut == CallerCuts(s, k)
          IN  s' = CallerAppended(s, "append_chain", cut,
                       NdisAppendNblChainToNblCountedQueueFast(cut.Next, s.Queue,
                                                               cut.First, cut.Last, k))
    /\ UNCHANGED input

CountedQueueAppendSingle ==
    /\ s.op = "CountedQueue"
    /\ CallerLength(s) >= 1
    /\ LET cut == CallerCuts(s, 1)
       IN  s' = CallerAppended(s, "append_single", cut,
                    NdisAppendSingleNblToNblCountedQueue(cut.Next, s.Queue, cut.First))
    /\ UNCHANGED input

CountedQueueFromChain ==
    /\ s.op = "CountedQueue"
    /\ \E k \in 1 .. CallerLength(s) :
          LET cut == CallerCuts(s, k)
          IN  s' = CallerAppended(s, "from_chain", cut,
                       NdisAppendNblChainToNblCountedQueue(cut.Next, s.Queue, cut.First))
    /\ UNCHANGED input

CountedQueuePopFirst ==
    /\ s.op = "CountedQueue"
    /\ s.Queue.First # NULL
    /\ LET pop == NdisPopFirstNblFromNblCountedQueue(s.Next, s.Queue)
       IN  s' = [s EXCEPT !.Next = pop.Next, !.Queue = pop.Q, !.Nbl = pop.Nbl,
                          !.returns = @ + 1]
    /\ UNCHANGED input

CountedQueuePopAll ==
    /\ s.op = "CountedQueue"
    /\ s.Queue.First # NULL
    /\ LET pop == NdisPopAllFromNblCountedQueue(s.Next, s.Queue)
       IN  s' = [s EXCEPT !.Next = pop.Next, !.Queue = pop.Q, !.Nbl = pop.Nbl,
                          !.returns = @ + s.Queue.NblCount]
    /\ UNCHANGED input

\* ------------------------------------------------------------- whole calls
\* The step a call in progress takes next, and the state in which it ends.
StepOf(st) ==
    CASE st.op = "Classify2" ->
            IF st.Nbl # NULL THEN NdisClassifyNblChain2_Loop(st)
                             ELSE NdisClassifyNblChain2_Exit(st)
      [] st.op = "ByIndex" ->
            IF st.Nbl # NULL THEN NdisClassifyNblChainByIndex_Loop(st)
                             ELSE NdisClassifyNblChainByIndex_Exit(st)
      [] st.op = "ByValue" -> NdisClassifyNblChainByValue_Loop(st)
      [] st.op = "Lookahead" /\ st.pc = "loop" -> NdisClassifyNblChainByValueLookahead_Loop(st)
      [] st.op = "Lookahead" /\ st.pc = "flush" -> NdisClassifyNblChainByValueLookahead_Flush(st)
      [] st.op = "Partial" /\ st.pc = "call" ->
            NdisPartialClassifyNblChainByValue_Entry(st, st.ResultPresent)
      [] st.op = "Partial" /\ st.pc = "loop" -> NdisPartialClassifyNblChainByValue_Loop(st)
      [] st.op = "Partial" /\ st.pc = "tail" -> NdisPartialClassifyNblChainByValue_Exit(st)

RECURSIVE RunToDone(_, _)
RunToDone(st, fuel) ==
    IF st.pc = "done" \/ fuel = 0 THEN st ELSE RunToDone(StepOf(st), fuel - 1)

\* More steps than any call on a chain of input.len NBLs takes.
StepLimit == 4 * (input.len + NDIS_CLASSIFY_NBL_LOOKHEAD_DEPTH) + 4

\* The flush callbacks of one whole NdisClassifyNblChainByValue call on the
\* input chain.
ByValueFlushes ==
    RunToDone(NdisClassifyNblChainByValue_Entry(Idle(input.len)), StepLimit).flushed

\* ----------------------------------- NDIS_ASSERT_NBL_CHAINS_DO_NOT_OVERLAP
\* The heaps of MaxLen NBLs in which every chain is null-terminated: an NBL's
\* Next is NULL or an NBL with a higher number.  Chains may run into one
\* another.
NullTerminatedHeaps ==
    {next \in [1 .. MaxLen -> 0 .. MaxLen] :
        \A n \in 1 .. MaxLen : next[n] = NULL \/ next[n] > n}

\* The first NBL is returned instead of the last.
NdisLastNblInNblChain_First(next, NblChain) == NblChain

\* while (NULL != (Next = Nbl->Next)) Nbl = Next; return Nbl;
RECURSIVE NdisLastNblInNblChain(_, _)
NdisLastNblInNblChain(next, NblChain) ==
    IF next[NblChain] # NULL
    THEN NdisLastNblInNblChain(next, next[NblChain])
    ELSE NblChain

\* The routine in a build with DBG: TRUE if NDIS_ASSERT fails.
NDIS_ASSERT_NBL_CHAINS_DO_NOT_OVERLAP(next, Chain1, Chain2) ==
    IF Chain1 = NULL \/ Chain2 = NULL
    THEN FALSE
    ELSE ~(NdisLastNblInNblChain(next, Chain1) # NdisLastNblInNblChain(next, Chain2))

\* A caller with two chains, either of which may be NULL.
OverlapInit ==
    /\ \E next \in NullTerminatedHeaps :
       \E Chain1, Chain2 \in 0 .. MaxLen :
          input = [Next |-> next, Chain1 |-> Chain1, Chain2 |-> Chain2]
    /\ s = [op |-> "idle", pc |-> "idle"]

AssertNblChainsDoNotOverlapCall ==
    /\ s.op = "idle"
    /\ s' = [op |-> "ChainsDoNotOverlap", pc |-> "done",
             asserted |-> NDIS_ASSERT_NBL_CHAINS_DO_NOT_OVERLAP(
                              input.Next, input.Chain1, input.Chain2)]
    /\ UNCHANGED input

\* -------------------------------------------------- MdlSpanIterateBuffers
\* return (a < b) ? a : b;
MinSizeT(a, b) == IF a < b THEN a ELSE b

\* The caller's MDL chain, span and operator.  MDL m of the chain has
\* ByteCount[m] bytes and its Next is MDL m + 1, the last MDL's is NULL; the
\* span starts at the first MDL (NULL for the chain of no MDLs).  The operator
\* returns STATUS_SUCCESS but for its FailAt-th invocation (none if 0), where
\* it returns FailWith.
MdlInit ==
    /\ \E n \in 0 .. MaxMdls :
       \E ByteCount \in [1 .. n -> 0 .. MaxBytes] :
       \E Offset, Length \in 0 .. MaxSpan :
       \E FailAt \in 0 .. n :
       \E FailWith \in {"STATUS_UNSUCCESSFUL", "STATUS_STOP_ITERATION"} :
          input = [ByteCount |-> ByteCount,
                   Span |-> [Start |-> [Mdl |-> IF n = 0 THEN NULL ELSE 1,
                                        Offset |-> Offset],
                             Length |-> Length],
                   FailAt |-> FailAt, FailWith |-> FailWith]
    /\ s = [op |-> "idle", pc |-> "idle"]

\* NtStatus = Operator(OperatorContext, &Subspan), the context being the
\* invocations so far.
Operator(OperatorContext, Span) ==
    IF Len(OperatorContext) + 1 = input.FailAt
    THEN input.FailWith
    ELSE "STATUS_SUCCESS"

\* BytesRemaining = Span->Length; if (0 == BytesRemaining) return
\* STATUS_SUCCESS; OffsetRemaining = Span->Start.Offset; Mdl = Span->Start.Mdl
MdlSpanIterateBuffersCall ==
    /\ s.op = "idle"
    /\ s' = [op |-> "MdlSpanIterateBuffers",
             pc |-> IF input.Span.Length = 0 THEN "done" ELSE "loop",
             BytesRemaining |-> input.Span.Length,
             OffsetRemaining |-> IF input.Span.Length = 0 THEN Uninit
                                 ELSE input.Span.Start.Offset,
             Mdl |-> IF input.Span.Length = 0 THEN Uninit
                     ELSE input.Span.Start.Mdl,
             calls |-> << >>,
             NtStatus |-> IF input.Span.Length = 0 THEN "STATUS_SUCCESS"
                          ELSE Uninit]
    /\ UNCHANGED input

\* The sub-span is not clipped to the bytes that remain.
MdlSpanIterateBuffersLoop_WholeBuffer ==
    /\ s.op = "MdlSpanIterateBuffers" /\ s.pc = "loop" /\ s.Mdl # NULL
    /\ LET MdlByteCount == input.ByteCount[s.Mdl]
           MdlOffset == MinSizeT(s.OffsetRemaining, MdlByteCount)
           BufferLength == MdlByteCount - MdlOffset
           Subspan == [Start |-> [Mdl |-> s.Mdl, Offset |-> MdlOffset],
                       Length |-> BufferLength]
           Next == IF s.Mdl < Len(input.ByteCount) THEN s.Mdl + 1 ELSE NULL
       IN  s' = IF MdlByteCount > MdlOffset
                THEN [s EXCEPT !.OffsetRemaining = @ - MdlOffset,
                               !.calls = Append(@, Subspan),
                               !.BytesRemaining =
                                   IF @ > BufferLength THEN @ - BufferLength ELSE 0,
                               !.NtStatus =
                                   IF s.BytesRemaining > BufferLength
                                   THEN Uninit ELSE "STATUS_SUCCESS",
                               !.pc = IF s.BytesRemaining > BufferLength
                                      THEN "loop" ELSE "done",
                               !.Mdl = Next]
                ELSE [s EXCEPT !.OffsetRemaining = @ - MdlOffset, !.Mdl = Next]
    /\ UNCHANGED input

\* One pass of for (Mdl = Span->Start.Mdl; Mdl; Mdl = Mdl->Next): the offset
\* that falls in this MDL is taken off OffsetRemaining; if the MDL has bytes
\* after it, the operator is invoked on them, clipped to BytesRemaining, and
\* the routine returns on a status other than STATUS_SUCCESS or when no bytes
\* remain.
MdlSpanIterateBuffersLoop ==
    /\ s.op = "MdlSpanIterateBuffers" /\ s.pc = "loop" /\ s.Mdl # NULL
    /\ LET MdlByteCount == input.ByteCount[s.Mdl]
           MdlOffset == MinSizeT(s.OffsetRemaining, MdlByteCount)
           BufferLength == MinSizeT(MdlByteCount - MdlOffset, s.BytesRemaining)
           Subspan == [Start |-> [Mdl |-> s.Mdl, Offset |-> MdlOffset],
                       Length |-> BufferLength]
           NtStatus == Operator(s.calls, Subspan)
           Next == IF s.Mdl < Len(input.ByteCount) THEN s.Mdl + 1 ELSE NULL
       IN  s' = IF MdlByteCount > MdlOffset
                THEN IF NtStatus # "STATUS_SUCCESS"
                     THEN [s EXCEPT !.OffsetRemaining = @ - MdlOffset,
                                    !.calls = Append(@, Subspan),
                                    !.NtStatus = NtStatus,
                                    !.pc = "done"]
                     ELSE IF s.BytesRemaining - BufferLength = 0
                     THEN [s EXCEPT !.OffsetRemaining = @ - MdlOffset,
                                    !.calls = Append(@, Subspan),
                                    !.BytesRemaining = @ - BufferLength,
                                    !.NtStatus = "STATUS_SUCCESS",
                                    !.pc = "done"]
                     ELSE [s EXCEPT !.OffsetRemaining = @ - MdlOffset,
                                    !.calls = Append(@, Subspan),
                                    !.BytesRemaining = @ - BufferLength,
                                    !.Mdl = Next]
                ELSE [s EXCEPT !.OffsetRemaining = @ - MdlOffset, !.Mdl = Next]
    /\ UNCHANGED input

\* After the loop: if (0 < BytesRemaining) ReportFatalOverflow(...), which
\* does not return; return STATUS_SUCCESS.
MdlSpanIterateBuffersExit ==
    /\ s.op = "MdlSpanIterateBuffers" /\ s.pc = "loop" /\ s.Mdl = NULL
    /\ s' = IF 0 < s.BytesRemaining
            THEN [s EXCEPT !.pc = "fatal"]
            ELSE [s EXCEPT !.pc = "done", !.NtStatus = "STATUS_SUCCESS"]
    /\ UNCHANGED input

\* ------------------------------- MdlChainIterateBuffers, MdlChainAdvanceBytes
\* The seek stops one buffer early: > in place of >=.
SeekOperator_Strict(Context, Span) ==
    IF Context.SeekBytesRemaining > Span.Length
    THEN [Context |-> [Context EXCEPT !.SeekBytesRemaining = @ - Span.Length],
          NtStatus |-> "STATUS_SUCCESS"]
    ELSE [Context |-> [Context EXCEPT !.FoundMdl = Span.Start.Mdl],
          NtStatus |-> "STATUS_STOP_ITERATION"]

\* if (Context->SeekBytesRemaining >= Span->Length) { SeekBytesRemaining -=
\* Span->Length; return STATUS_SUCCESS; } else { FoundMdl = Span->Start.Mdl;
\* return STATUS_STOP_ITERATION; }  The result is the context after the call
\* and the status.
SeekOperator(Context, Span) ==
    IF Context.SeekBytesRemaining >= Span.Length
    THEN [Context |-> [Context EXCEPT !.SeekBytesRemaining = @ - Span.Length],
          NtStatus |-> "STATUS_SUCCESS"]
    ELSE [Context |-> [Context EXCEPT !.FoundMdl = Span.Start.Mdl],
          NtStatus |-> "STATUS_STOP_ITERATION"]

\* The caller iterates over its whole chain with its own operator.
MdlChainIterateBuffersCall ==
    /\ s.op = "idle"
    /\ s' = [op |-> "MdlChainIterateBuffers", pc |-> "loop",
             Mdl |-> input.Span.Start.Mdl, calls |-> << >>,
             NtStatus |-> Uninit]
    /\ UNCHANGED input

\* MdlChainAdvanceBytes(MdlChain, AdvanceOffset, &FoundMdl, &FoundMdlOffset)
\* up to its call of MdlChainIterateBuffers(MdlChain, SeekOperator, &Context);
\* the caller's pointer is (MdlChain, AdvanceOffset).
MdlChainAdvanceBytesCall ==
    /\ s.op = "idle"
    /\ s' = [op |-> "MdlChainAdvanceBytes", pc |-> "loop",
             Mdl |-> input.Span.Start.Mdl, calls |-> << >>,
             NtStatus |-> Uninit,
             Context |-> [SeekBytesRemaining |-> input.Span.Start.Offset,
                          FoundMdl |-> NULL],
             FoundMdl |-> Uninit, FoundMdlOffset |-> Uninit]
    /\ UNCHANGED input

\* The loop returns STATUS_SUCCESS on every status.
MdlChainIterateBuffersStep_AlwaysSuccess ==
    /\ s.op \in {"MdlChainIterateBuffers", "MdlChainAdvanceBytes"}
    /\ s.pc = "loop"
    /\ LET Returned == IF s.op = "MdlChainIterateBuffers" THEN "done"
                       ELSE "iterated"
           Span == [Start |-> [Mdl |-> s.Mdl, Offset |-> 0],
                    Length |-> input.ByteCount[s.Mdl]]
           Next == IF s.Mdl < Len(input.ByteCount) THEN s.Mdl + 1 ELSE NULL
       IN  s' = IF s.Mdl = NULL
                THEN [s EXCEPT !.NtStatus = "STATUS_SUCCESS", !.pc = Returned]
                ELSE IF 0 < input.ByteCount[s.Mdl]
                THEN IF s.op = "MdlChainAdvanceBytes"
                     THEN [s EXCEPT !.calls = Append(@, Span),
                                    !.Context = SeekOperator(@, Span).Context,
                                    !.Mdl = Next]
                     ELSE IF Operator(s.calls, Span) # "STATUS_SUCCESS"
                     THEN [s EXCEPT !.calls = Append(@, Span),
                                    !.NtStatus = "STATUS_SUCCESS",
                                    !.pc = Returned]
                     ELSE [s EXCEPT !.calls = Append(@, Span), !.Mdl = Next]
                ELSE [s EXCEPT !.Mdl = Next]
    /\ UNCHANGED input

\* for (Mdl = MdlChain; Mdl; Mdl = Mdl->Next): the loop test and one pass.  An
\* MDL of at least one byte is given whole to the operator (SeekOperator with
\* its context inside MdlChainAdvanceBytes); a status other than
\* STATUS_SUCCESS is returned at once; after the last MDL the routine returns
\* STATUS_SUCCESS.
MdlChainIterateBuffersStep ==
    /\ s.op \in {"MdlChainIterateBuffers", "MdlChainAdvanceBytes"}
    /\ s.pc = "loop"
    /\ LET Returned == IF s.op = "MdlChainIterateBuffers" THEN "done"
                       ELSE "iterated"
           Span == [Start |-> [Mdl |-> s.Mdl, Offset |-> 0],
                    Length |-> input.ByteCount[s.Mdl]]
           Next == IF s.Mdl < Len(input.ByteCount) THEN s.Mdl + 1 ELSE NULL
       IN  s' = IF s.Mdl = NULL
                THEN [s EXCEPT !.NtStatus = "STATUS_SUCCESS", !.pc = Returned]
                ELSE IF 0 < input.ByteCount[s.Mdl]
                THEN IF s.op = "MdlChainAdvanceBytes"
                     THEN LET r == SeekOperator(s.Context, Span)
                          IN  IF r.NtStatus # "STATUS_SUCCESS"
                              THEN [s EXCEPT !.calls = Append(@, Span),
                                             !.Context = r.Context,
                                             !.NtStatus = r.NtStatus,
                                             !.pc = Returned]
                              ELSE [s EXCEPT !.calls = Append(@, Span),
                                             !.Context = r.Context,
                                             !.Mdl = Next]
                     ELSE LET NtStatus == Operator(s.calls, Span)
                          IN  IF NtStatus # "STATUS_SUCCESS"
                              THEN [s EXCEPT !.calls = Append(@, Span),
                                             !.NtStatus = NtStatus,
                                             !.pc = Returned]
                              ELSE [s EXCEPT !.calls = Append(@, Span),
                                             !.Mdl = Next]
                ELSE [s EXCEPT !.Mdl = Next]
    /\ UNCHANGED input

\* MdlChainAdvanceBytes after MdlChainIterateBuffers returned: the found MDL
\* and the bytes left to seek on STATUS_STOP_ITERATION, (NULL, 0) on
\* STATUS_SUCCESS with nothing left to seek, else ReportFatalOverflow.
MdlChainAdvanceBytesReturn ==
    /\ s.op = "MdlChainAdvanceBytes" /\ s.pc = "iterated"
    /\ s' = IF s.NtStatus = "STATUS_STOP_ITERATION"
            THEN [s EXCEPT !.FoundMdl = s.Context.FoundMdl,
                           !.FoundMdlOffset = s.Context.SeekBytesRemaining,
                           !.pc = "done"]
            ELSE IF s.NtStatus = "STATUS_SUCCESS"
                    /\ 0 = s.Context.SeekBytesRemaining
            THEN [s EXCEPT !.FoundMdl = NULL, !.FoundMdlOffset = 0,
                           !.pc = "done"]
            ELSE [s EXCEPT !.pc = "fatal"]
    /\ UNCHANGED input

\* ------------------------ MdlPairwiseIterateBuffers, MdlEqualBufferContents
\* The caller's two MDL chains, pointers and length.  Chain[c][m] is the
\* buffer of MDL m of chain c, a sequence of bytes; the MDL's byte count is
\* its length and its Next is MDL m + 1, NULL for the last.  Each pointer is
\* at the first MDL of its chain (NULL for a chain of no MDLs) with any
\* Offset.
PairInit ==
    /\ \E Chain1, Chain2 \in
              UNION {[1 .. n -> UNION {[1 .. b -> {0, 1}] : b \in 0 .. MaxPairBytes}] :
                        n \in 0 .. MaxPairMdls} :
       \E Offset1, Offset2 \in 0 .. MaxPairOffset :
       \E TotalLength \in 0 .. MaxPairLength :
          input = [Chain |-> <<Chain1, Chain2>>,
                   MdlPointer |->
                       <<[Mdl |-> IF Len(Chain1) = 0 THEN NULL ELSE 1,
                          Offset |-> Offset1],
                         [Mdl |-> IF Len(Chain2) = 0 THEN NULL ELSE 1,
                          Offset |-> Offset2]>>,
                   TotalLength |-> TotalLength]
    /\ s = [op |-> "idle", pc |-> "idle"]

\* MdlChainAdvanceBytes as one call on chain c: MdlChainIterateBuffers with
\* SeekOperator from MdlChain on, then the found MDL and the bytes left to
\* seek, (NULL, 0) if the chain ended with nothing left to seek, or the
\* overflow report.
RECURSIVE MdlChainAdvanceBytes(_, _, _)
MdlChainAdvanceBytes(c, MdlChain, AdvanceOffset) ==
    IF MdlChain = NULL
    THEN IF 0 = AdvanceOffset
         THEN [Mdl |-> NULL, Offset |-> 0, ends |-> "returns"]
         ELSE [Mdl |-> NULL, Offset |-> AdvanceOffset, ends |-> "fatal"]
    ELSE LET ByteCount == Len(input.Chain[c][MdlChain])
             Next == IF MdlChain < Len(input.Chain[c]) THEN MdlChain + 1
                     ELSE NULL
         IN  IF 0 < ByteCount
             THEN IF AdvanceOffset >= ByteCount
                  THEN MdlChainAdvanceBytes(c, Next, AdvanceOffset - ByteCount)
                  ELSE [Mdl |-> MdlChain, Offset |-> AdvanceOffset,
                        ends |-> "returns"]
             ELSE MdlChainAdvanceBytes(c, Next, AdvanceOffset)

\* if (Pointer->Offset >= MmGetMdlByteCount(Pointer->Mdl))
\*     MdlChainAdvanceBytes(Pointer->Mdl, Pointer->Offset, &Pointer->Mdl,
\*                          &Pointer->Offset);
\* MmGetMdlByteCount reads Mdl->ByteCount: with Pointer->Mdl NULL the routine
\* reads through a null pointer ("nullread").
MdlPointerNormalize(c, Pointer) ==
    IF Pointer.Mdl = NULL
    THEN [Mdl |-> NULL, Offset |-> Pointer.Offset, ends |-> "nullread"]
    ELSE IF Pointer.Offset >= Len(input.Chain[c][Pointer.Mdl])
    THEN MdlChainAdvanceBytes(c, Pointer.Mdl, Pointer.Offset)
    ELSE [Mdl |-> Pointer.Mdl, Offset |-> Pointer.Offset, ends |-> "returns"]

\* if (Delta + Pointer->Offset < MmGetMdlByteCount(Pointer->Mdl))
\*     Pointer->Offset += Delta;
\* else MdlChainAdvanceBytes(Pointer->Mdl, Delta + Pointer->Offset, ...);
MdlPointerAdvanceBytes(c, Pointer, Delta) ==
    IF Pointer.Mdl = NULL
    THEN [Mdl |-> NULL, Offset |-> Pointer.Offset, ends |-> "nullread"]
    ELSE IF Delta + Pointer.Offset < Len(input.Chain[c][Pointer.Mdl])
    THEN [Mdl |-> Pointer.Mdl, Offset |-> Pointer.Offset + Delta,
          ends |-> "returns"]
    ELSE MdlChainAdvanceBytes(c, Pointer.Mdl, Delta + Pointer.Offset)

\* Only the first byte of each pair of buffers is compared.
PairwiseEqual_FirstByte(MdlPointer1, MdlPointer2, BufferLength, Mapped) ==
    IF ~Mapped
    THEN "STATUS_INSUFFICIENT_RESOURCES"
    ELSE IF input.Chain[1][MdlPointer1.Mdl][MdlPointer1.Offset + 1]
                = input.Chain[2][MdlPointer2.Mdl][MdlPointer2.Offset + 1]
    THEN "STATUS_SUCCESS"
    ELSE "STATUS_STOP_ITERATION"

\* Both MDLs are mapped; Mapped is FALSE if MDL_MAP_CONST_BUFFER gave no
\* address for either, and the operator returns
\* STATUS_INSUFFICIENT_RESOURCES.  RtlEqualMemory compares BufferLength bytes
\* from each pointer's Offset: STATUS_SUCCESS if they are equal, else
\* STATUS_STOP_ITERATION.
PairwiseEqual(MdlPointer1, MdlPointer2, BufferLength, Mapped) ==
    IF ~Mapped
    THEN "STATUS_INSUFFICIENT_RESOURCES"
    ELSE IF \A k \in 1 .. BufferLength :
                input.Chain[1][MdlPointer1.Mdl][MdlPointer1.Offset + k]
                    = input.Chain[2][MdlPointer2.Mdl][MdlPointer2.Offset + k]
    THEN "STATUS_SUCCESS"
    ELSE "STATUS_STOP_ITERATION"

\* MdlEqualBufferContents calls MdlPairwiseIterateBuffers, which returns
\* STATUS_SUCCESS if TotalLength is 0 and else calls
\* MdlPairwiseIterateBuffersUpdateInputs on copies of the two pointers;
\* MdlEqualBufferContentsUpdateInputs calls the latter on the caller's
\* pointers.  MdlPairwiseIterateBuffersUpdateInputs up to its loop:
\* BytesRemaining = TotalLength and the two pointers are normalized, the
\* first before the second.  A read through a null pointer is undefined: it
\* faults, or execution goes on in a way nothing is known about.
PairwiseCall ==
    /\ s.op = "idle"
    /\ \E op \in {"MdlEqualBufferContents", "MdlEqualBufferContentsUpdateInputs"} :
       \E outcome \in {"fault", "undefined"} :
          LET st == [op |-> op, pc |-> "loop",
                     MdlPointer |-> input.MdlPointer,
                     BytesRemaining |-> input.TotalLength,
                     calls |-> << >>, nullread |-> FALSE, unmapped |-> FALSE,
                     NtStatus |-> Uninit, AreBuffersEqual |-> Uninit,
                     returned |-> Uninit]
              p1 == MdlPointerNormalize(1, input.MdlPointer[1])
              p2 == MdlPointerNormalize(2, input.MdlPointer[2])
          IN  s' = IF op = "MdlEqualBufferContents" /\ 0 = input.TotalLength
                   THEN [st EXCEPT !.pc = "iterated",
                                   !.NtStatus = "STATUS_SUCCESS"]
                   ELSE IF p1.ends = "nullread"
                   THEN [st EXCEPT !.pc = outcome, !.nullread = TRUE]
                   ELSE IF p1.ends = "fatal"
                   THEN [st EXCEPT !.pc = "fatal"]
                   ELSE IF p2.ends = "nullread"
                   THEN [st EXCEPT !.pc = outcome, !.nullread = TRUE]
                   ELSE IF p2.ends = "fatal"
                   THEN [st EXCEPT !.pc = "fatal"]
                   ELSE [st EXCEPT !.MdlPointer =
                            <<[Mdl |-> p1.Mdl, Offset |-> p1.Offset],
                              [Mdl |-> p2.Mdl, Offset |-> p2.Offset]>>]
    /\ UNCHANGED input

\* while (BytesRemaining > 0): the loop test and one pass.  CommonLength is
\* the least of BytesRemaining and the bytes left in the two pointers' MDLs
\* (MmGetMdlByteCount of each pointer's Mdl is read: a null Mdl is a read
\* through a null pointer); the operator is called, the system mapping the
\* two MDLs or not, and a status other than STATUS_SUCCESS returned; both
\* pointers are advanced by CommonLength.
PairwiseLoop ==
    /\ s.op \in {"MdlEqualBufferContents", "MdlEqualBufferContentsUpdateInputs"}
    /\ s.pc = "loop"
    /\ \E outcome \in {"fault", "undefined"}, Mapped \in BOOLEAN :
          LET P1 == s.MdlPointer[1]
              P2 == s.MdlPointer[2]
              CommonLength ==
                  MinSizeT(s.BytesRemaining,
                      MinSizeT(Len(input.Chain[1][P1.Mdl]) - P1.Offset,
                               Len(input.Chain[2][P2.Mdl]) - P2.Offset))
              NtStatus == PairwiseEqual(P1, P2, CommonLength, Mapped)
              a1 == MdlPointerAdvanceBytes(1, P1, CommonLength)
              a2 == MdlPointerAdvanceBytes(2, P2, CommonLength)
              called == [s EXCEPT !.calls =
                            Append(@, [MdlPointer1 |-> P1, MdlPointer2 |-> P2,
                                       BufferLength |-> CommonLength]),
                            !.unmapped = ~Mapped]
          IN  s' = IF ~(s.BytesRemaining > 0)
                   THEN [s EXCEPT !.pc = "iterated",
                                  !.NtStatus = "STATUS_SUCCESS"]
                   ELSE IF P1.Mdl = NULL \/ P2.Mdl = NULL
                   THEN [s EXCEPT !.pc = outcome, !.nullread = TRUE]
                   ELSE IF "STATUS_SUCCESS" # NtStatus
                   THEN [called EXCEPT !.pc = "iterated", !.NtStatus = NtStatus]
                   ELSE IF a1.ends = "fatal" \/ a2.ends = "fatal"
                   THEN [called EXCEPT !.pc = "fatal"]
                   ELSE [called EXCEPT
                            !.MdlPointer =
                                <<[Mdl |-> a1.Mdl, Offset |-> a1.Offset],
                                  [Mdl |-> a2.Mdl, Offset |-> a2.Offset]>>,
                            !.BytesRemaining = @ - CommonLength]
    /\ UNCHANGED input

\* MdlEqualBufferContents and MdlEqualBufferContentsUpdateInputs after the
\* iteration returned: TRUE and STATUS_SUCCESS on STATUS_SUCCESS, FALSE and
\* STATUS_SUCCESS on STATUS_STOP_ITERATION, else FALSE and the status.
MdlEqualBufferContentsReturn ==
    /\ s.op \in {"MdlEqualBufferContents", "MdlEqualBufferContentsUpdateInputs"}
    /\ s.pc = "iterated"
    /\ s' = IF "STATUS_SUCCESS" = s.NtStatus
            THEN [s EXCEPT !.AreBuffersEqual = TRUE,
                           !.returned = "STATUS_SUCCESS", !.pc = "done"]
            ELSE IF "STATUS_STOP_ITERATION" = s.NtStatus
            THEN [s EXCEPT !.AreBuffersEqual = FALSE,
                           !.returned = "STATUS_SUCCESS", !.pc = "done"]
            ELSE [s EXCEPT !.AreBuffersEqual = FALSE,
                           !.returned = s.NtStatus, !.pc = "done"]
    /\ UNCHANGED input

\* ------------------------------------------------------------ OID requests
\* A filter's thread calls one of NdisFPassthroughOidRequest and
\* NdisFIssueOidRequestAndWait (the template whose reserved context has the
\* unions Completion and Data) or NdisFOidRequestAndWait (the template whose
\* reserved context has OriginalRequest and the one union Completion) on a
\* request; the lower layer answers NdisFOidRequest with a status and, if the
\* request pends, calls the filter's completion handler on another thread.
\* A word of the reserved context holds an NDIS_STATUS, a completion kind, or
\* half of the address of the waiter's KEVENT; the word 0 is
\* NDIS_STATUS_SUCCESS.  Pointers have PointerBits bits; the high word of the
\* one-union Completion exists only with 64.
OidInit ==
    /\ \E routine \in {"NdisFPassthroughOidRequest",
                       "NdisFIssueOidRequestAndWait", "NdisFOidRequestAndWait"} :
       \E PointerBits \in {32, 64} :
       \E CloneStatus \in {"NDIS_STATUS_SUCCESS", "NDIS_STATUS_RESOURCES"} :
       \E CompletionStatus \in {"NDIS_STATUS_SUCCESS", "NDIS_STATUS_FAILURE"} :
       \E Before, After \in 0 .. MaxOidLength :
          input = [routine |-> routine, PointerBits |-> PointerBits,
                   CloneStatus |-> CloneStatus,
                   CompletionStatus |-> CompletionStatus,
                   Before |-> Before, After |-> After]
    /\ s = [op |-> "idle", pc |-> "idle"]

\* The routine up to its call of NdisFOidRequest.  NdisFPassthroughOidRequest
\* allocates the clone (on failure it clears the original's data lengths and
\* returns the status), zeroes the clone's context, sets CompletionKind and
\* Data.OriginalRequest.  NdisFIssueOidRequestAndWait zeroes the context, sets
\* CompletionKind to Event, initializes the event and stores its address in
\* Data.WaitEvent.  NdisFOidRequestAndWait zeroes the context, stores
\* NDIS_STATUS_PENDING in Completion.Status, initializes the event and stores
\* its address in Completion.WaitEvent, the same union.
OidIssue ==
    /\ s.op = "idle"
    /\ LET st == [op |-> input.routine, pc |-> "requested",
                  NdisStatus |-> "none", returned |-> "none",
                  handler |-> "none",
                  Completion |-> [high |-> "0", low |-> "NDIS_STATUS_SUCCESS"],
                  WaitEvent |-> "NULL", Signaled |-> FALSE,
                  Clone |-> "none", OriginalLength |-> input.Before,
                  RequestLength |-> input.Before,
                  log |-> << >>]
       IN  s' = CASE input.routine = "NdisFPassthroughOidRequest" ->
                     IF "NDIS_STATUS_SUCCESS" # input.CloneStatus
                     THEN [st EXCEPT !.pc = "done", !.OriginalLength = 0,
                                     !.returned = input.CloneStatus]
                     ELSE [st EXCEPT !.Clone = "allocated",
                                     !.Completion.low = "CompletionKindPassthrough"]
                  [] input.routine = "NdisFIssueOidRequestAndWait" ->
                     [st EXCEPT !.Completion.low = "CompletionKindEvent",
                                !.WaitEvent = "&WaitEvent"]
                  [] input.routine = "NdisFOidRequestAndWait" ->
                     [st EXCEPT !.Completion =
                         [high |-> IF input.PointerBits = 64
                                   THEN "&WaitEvent.high" ELSE "0",
                          low |-> "&WaitEvent.low"]]
    /\ UNCHANGED input

\* The clone is freed whatever NdisFOidRequest returned.
NdisFOidRequestReturns_AlwaysFrees ==
    /\ s.op # "idle" /\ s.pc = "requested"
    /\ \E NdisStatus \in {"NDIS_STATUS_SUCCESS", "NDIS_STATUS_FAILURE",
                          "NDIS_STATUS_PENDING"} :
          /\ NdisStatus # "NDIS_STATUS_PENDING" => s.handler = "none"
          /\ s.handler # "none" => NdisStatus = "NDIS_STATUS_PENDING"
          /\ s' = [s EXCEPT !.NdisStatus = NdisStatus,
                            !.OriginalLength = IF s.Clone = "allocated"
                                               THEN input.After ELSE @,
                            !.Clone = "freed",
                            !.log = @ \o <<"caller copies", "caller frees">>,
                            !.returned = NdisStatus,
                            !.pc = IF s.op = "NdisFPassthroughOidRequest"
                                      \/ NdisStatus # "NDIS_STATUS_PENDING"
                                   THEN "done" ELSE "waiting"]
    /\ UNCHANGED input

\* NdisFOidRequest returns to the routine: a status other than
\* NDIS_STATUS_PENDING if the lower layer completed the request in the call
\* (it has written the data lengths and will not call the completion
\* handler), or NDIS_STATUS_PENDING.  The routine goes on to its return or to
\* its wait: NdisFPassthroughOidRequest copies the data lengths and frees the
\* clone unless the status is NDIS_STATUS_PENDING, and returns the status;
\* the waiting routines return a status other than NDIS_STATUS_PENDING and
\* else call KeWaitForSingleObject.
NdisFOidRequestReturns ==
    /\ s.op # "idle" /\ s.pc = "requested"
    /\ \E NdisStatus \in {"NDIS_STATUS_SUCCESS", "NDIS_STATUS_FAILURE",
                          "NDIS_STATUS_PENDING"} :
          /\ NdisStatus # "NDIS_STATUS_PENDING" => s.handler = "none"
          /\ s.handler # "none" => NdisStatus = "NDIS_STATUS_PENDING"
          /\ LET lower == IF NdisStatus # "NDIS_STATUS_PENDING"
                          THEN [s EXCEPT !.NdisStatus = NdisStatus,
                                         !.RequestLength = input.After]
                          ELSE [s EXCEPT !.NdisStatus = NdisStatus]
             IN  s' = IF s.op = "NdisFPassthroughOidRequest"
                      THEN IF "NDIS_STATUS_PENDING" # NdisStatus
                           THEN [lower EXCEPT
                                    !.OriginalLength = lower.RequestLength,
                                    !.Clone = "freed",
                                    !.log = @ \o <<"caller copies", "caller frees">>,
                                    !.returned = NdisStatus, !.pc = "done"]
                           ELSE [lower EXCEPT !.returned = NdisStatus,
                                              !.pc = "done"]
                      ELSE IF "NDIS_STATUS_PENDING" = NdisStatus
                           THEN [lower EXCEPT !.pc = "waiting",
                                              !.log = Append(@, "waits")]
                           ELSE [lower EXCEPT !.returned = NdisStatus,
                                              !.pc = "done"]
    /\ UNCHANGED input

\* The wait is over as soon as the status has been written.
OidWaitReturns_BeforeSignal ==
    /\ s.op \in {"NdisFIssueOidRequestAndWait", "NdisFOidRequestAndWait"}
    /\ s.pc = "waiting"
    /\ s' = [s EXCEPT !.returned = s.Completion.low, !.pc = "done",
                      !.log = Append(@, "wakes")]
    /\ UNCHANGED input

\* KeWaitForSingleObject returns once the event is signaled; the routine
\* reads the status word of Completion and returns it.
OidWaitReturns ==
    /\ s.op \in {"NdisFIssueOidRequestAndWait", "NdisFOidRequestAndWait"}
    /\ s.pc = "waiting"
    /\ s.Signaled
    /\ s' = [s EXCEPT !.returned = s.Completion.low, !.pc = "done",
                      !.log = Append(@, "wakes")]
    /\ UNCHANGED input

\* The completion handler (NdisFDispatchOidRequestComplete, or
\* NdisFPassthroughOidRequestComplete of the one-union template) is called
\* with the request given to NdisFOidRequest, which pends or has not returned
\* yet, after the lower layer wrote the data lengths.  For a clone: the data
\* lengths are copied to the original, the clone is freed and the original is
\* completed with NdisFOidRequestComplete.  For a waiter's request:
\* WriteRelease stores CompletionStatus in the status word of Completion.
OidRequestComplete ==
    /\ s.op # "idle" /\ s.pc # "idle"
    /\ s.NdisStatus \in {"none", "NDIS_STATUS_PENDING"}
    /\ s.pc = "done" => s.NdisStatus = "NDIS_STATUS_PENDING"
    /\ s.handler = "none"
    /\ s' = IF s.Completion.low = "CompletionKindPassthrough"
            THEN [s EXCEPT !.RequestLength = input.After,
                           !.OriginalLength = input.After,
                           !.Clone = "freed",
                           !.log = @ \o <<"handler copies", "handler frees",
                                          "handler completes original">>,
                           !.handler = "done"]
            ELSE [s EXCEPT !.RequestLength = input.After,
                           !.Completion.low = input.CompletionStatus,
                           !.log = Append(@, "handler writes status"),
                           !.handler = "written"]
    /\ UNCHANGED input

\* The completion handler after the status is written: if the WaitEvent
\* pointer is not NULL, KeSetEvent on it.  NdisFDispatchOidRequestComplete
\* reads Data.WaitEvent.  The one-union handler reads Completion.WaitEvent,
\* whose low word is the status just written: the pointer is NULL if all its
\* words are 0, and else is not the address of the waiter's event; KeSetEvent
\* on it is undefined: it faults, or execution goes on in a way nothing is
\* known about.
OidRequestCompleteSignal ==
    /\ s.op # "idle" /\ s.handler = "written"
    /\ \E outcome \in {"fault", "undefined"} :
          s' = IF s.op = "NdisFIssueOidRequestAndWait"
               THEN IF "NULL" # s.WaitEvent
                    THEN [s EXCEPT !.Signaled = TRUE, !.handler = "done",
                                   !.log = Append(@, "handler signals")]
                    ELSE [s EXCEPT !.handler = "done"]
               ELSE IF s.Completion = [high |-> "0",
                                       low |-> "NDIS_STATUS_SUCCESS"]
                    THEN [s EXCEPT !.handler = "done"]
                    ELSE IF s.Completion.low = "&WaitEvent.low"
                    THEN [s EXCEPT !.Signaled = TRUE, !.handler = "done",
                                   !.log = Append(@, "handler signals")]
                    ELSE [s EXCEPT !.handler = outcome]
    /\ UNCHANGED input

\* ---------------------------------------------------------- a cyclic chain
\* The caller passes a chain whose last NBL points back into the chain:
\* 1 -> 2 -> ... -> len -> back.
CyclicInit ==
    /\ \E len \in 1 .. MaxRing :
       \E cls \in [1 .. len -> Keys] :
       \E back \in 1 .. len :
          input = [len |-> len, cls |-> cls, back |-> back]
    /\ s = [Idle(input.len) EXCEPT !.Next[input.len] = input.back]

\* Callbacks after which a call on a cyclic chain is no longer followed:
\* twice around the longest cycle.
MaxCallbacks == 2 * MaxRing + 1

\* A call of one of the five routines, the output queues of the index
\* classifiers being empty.
CyclicCall ==
    /\ s.op = "idle"
    /\ \/ /\ \A n \in 1 .. input.len : input.cls[n] \in {0, 1}
          /\ s' = [NdisClassifyNblChain2_Entry(s, [q \in 0 .. 1 |-> 0])
                       EXCEPT !.Next = s.Next]
       \/ \E NumberOfQueues \in 1 .. MaxQueues :
             /\ \A n \in 1 .. input.len : input.cls[n] < NumberOfQueues
             /\ s' = [NdisClassifyNblChainByIndex_Entry(
                           s, [q \in 0 .. (NumberOfQueues - 1) |-> 0], NumberOfQueues)
                          EXCEPT !.Next = s.Next]
       \/ s' = NdisClassifyNblChainByValue_Entry(s)
       \/ \E Depth \in 1 .. NDIS_CLASSIFY_NBL_LOOKHEAD_DEPTH :
             s' = NdisClassifyNblChainByValueLookahead_Entry(s, Depth)
       \/ \E ResultPresent \in BOOLEAN :
             s' = NdisPartialClassifyNblChainByValue_Entry(s, ResultPresent)
    /\ UNCHANGED input

\* The next step of the routine that was called.
CyclicStep ==
    /\ s.pc \in {"loop", "flush", "tail"}
    /\ Len(s.classified) < MaxCallbacks
    /\ s' = StepOf(s)
    /\ UNCHANGED input

\* ------------------------------------------------------------ specification
\* The index classifiers.
IndexNext ==
    \/ Classify2Call
    \/ Classify2Iterate
    \/ Classify2Return
    \/ ByIndexCall
    \/ ByIndexIterate
    \/ ByIndexReturn

IndexSpec == Init /\ [][IndexNext]_vars

\* The value classifiers.
ValueNext ==
    \/ ByValueCall
    \/ ByValueIterate
    \/ LookaheadCall
    \/ LookaheadIterate
    \/ LookaheadFinalFlush
    \/ PartialCall
    \/ PartialIterate
    \/ PartialReturn

ValueSpec == Init /\ [][ValueNext]_vars

\* The eager and the lookahead classifier.
LookaheadNext ==
    \/ ByValueCall
    \/ ByValueIterate
    \/ LookaheadCall
    \/ LookaheadIterate
    \/ LookaheadFinalFlush

LookaheadSpec == Init /\ [][LookaheadNext]_vars

\* The eager and the lookahead classifier under a callback that takes the
\* batch.
DispatchNext ==
    \/ ByValueCall
    \/ ByValueIterateDispatching
    \/ LookaheadCall
    \/ LookaheadIterateDispatching
    \/ LookaheadFinalFlushDispatching

DispatchSpec == Init /\ [][DispatchNext]_vars

\* The index classifiers in a build without assertions, with a callback
\* that returns an index out of range.
ReleaseNext ==
    \/ Classify2CallRelease
    \/ Classify2Iterate
    \/ Classify2Return
    \/ ByIndexCallRelease
    \/ ByIndexIterate
    \/ ByIndexReturn
    \/ ByIndexOutOfBounds

ReleaseSpec == Init /\ [][ReleaseNext]_vars

\* The five classification routines on a chain that contains a cycle.
CyclicNext ==
    \/ CyclicCall
    \/ CyclicStep

CyclicSpec == CyclicInit /\ [][CyclicNext]_vars

\* The overlap assertion on two chains.
OverlapSpec == OverlapInit /\ [][AssertNblChainsDoNotOverlapCall]_vars

\* MdlSpanIterateBuffers on a chain of up to MaxMdls MDLs.
MdlSpanNext ==
    \/ MdlSpanIterateBuffersCall
    \/ MdlSpanIterateBuffersLoop
    \/ MdlSpanIterateBuffersExit

MdlSpanSpec == MdlInit /\ [][MdlSpanNext]_vars

\* MdlChainIterateBuffers and MdlChainAdvanceBytes on the same chains.
MdlChainSpec ==
    MdlInit /\ [][\/ MdlChainIterateBuffersCall
                  \/ MdlChainAdvanceBytesCall
                  \/ MdlChainIterateBuffersStep
                  \/ MdlChainAdvanceBytesReturn]_vars

\* The two iterators and MdlChainAdvanceBytes on the same chains.
MdlIterateSpec ==
    MdlInit /\ [][\/ MdlSpanNext
                  \/ MdlChainIterateBuffersCall
                  \/ MdlChainAdvanceBytesCall
                  \/ MdlChainIterateBuffersStep
                  \/ MdlChainAdvanceBytesReturn]_vars

\* The comparison of two MDL chains through the pairwise iterators.
PairwiseSpec ==
    PairInit /\ [][\/ PairwiseCall
                   \/ PairwiseLoop
                   \/ MdlEqualBufferContentsReturn]_vars

\* One OID request, the thread that issues it and the completion handler.
OidSpec ==
    OidInit /\ [][\/ OidIssue
                  \/ NdisFOidRequestReturns
                  \/ OidWaitReturns
                  \/ OidRequestComplete
                  \/ OidRequestCompleteSignal]_vars

\* The five classification entry points.
EntryPointsNext == IndexNext \/ ValueNext

\* The steps of a routine that has been called.
EntryPointsRun ==
    \/ Classify2Iterate
    \/ Classify2Return
    \/ ByIndexIterate
    \/ ByIndexReturn
    \/ ByValueIterate
    \/ LookaheadIterate
    \/ LookaheadFinalFlush
    \/ PartialIterate
    \/ PartialReturn

\* Every step of a routine moves it to another place or has it call back.
progress == <<s.pc, Len(s.classified), Len(s.flushed)>>

\* A routine that has been called runs on its caller's thread without a
\* suspension point: its next step is taken.  Nothing obliges a caller to
\* call.
EntryPointsFairSpec ==
    Init /\ [][EntryPointsNext]_vars /\ WF_progress(EntryPointsRun)

\* The counted index classifiers.
IndexCountNext ==
    \/ Classify2WithCountCall
    \/ Classify2WithCountIterate
    \/ Classify2WithCountReturn
    \/ ByIndexWithCountCall
    \/ ByIndexWithCountIterate
    \/ ByIndexWithCountReturn

IndexCountSpec == Init /\ [][IndexCountNext]_vars

\* The counted value classifiers with a flush callback.
ValueCountNext ==
    \/ ByValueWithCountCall
    \/ ByValueWithCountIterate
    \/ LookaheadWithCountCall
    \/ LookaheadWithCountIterate
    \/ LookaheadWithCountFinalFlush

ValueCountSpec == Init /\ [][ValueCountNext]_vars

\* The lookahead classifier with and without counts, beside the eager ones.
LookaheadAllNext == LookaheadNext \/ ValueCountNext

LookaheadAllSpec == Init /\ [][LookaheadAllNext]_vars

\* The index classifiers, plain and counted.
IndexAllNext == IndexNext \/ IndexCountNext

IndexAllSpec == Init /\ [][IndexAllNext]_vars

\* The loop of counted partial classifications.
PartialCountNext ==
    \/ PartialWithCountCall
    \/ PartialWithCountIterate
    \/ PartialWithCountReturn

PartialCountSpec == Init /\ [][PartialCountNext]_vars

\* The queue routines under their caller.
QueueNext ==
    \/ QueueInit
    \/ QueueAppendChain
    \/ QueueAppendSingle
    \/ QueueFromChain

QueueSpec == Init /\ [][QueueNext]_vars

CountedQueueNext ==
    \/ CountedQueueInit
    \/ CountedQueueAppendChain
    \/ CountedQueueAppendSingle
    \/ CountedQueueFromChain
    \/ CountedQueuePopFirst
    \/ CountedQueuePopAll

CountedQueueSpec == Init /\ [][CountedQueueNext]_vars

Next ==
    \/ IndexNext
    \/ ValueNext
    \/ IndexCountNext
    \/ ValueCountNext
    \/ PartialCountNext
    \/ QueueNext
    \/ CountedQueueNext
    \/ DispatchNext
    \/ ReleaseNext
    \/ LookaheadAllNext

Spec == Init /\ [][Next]_vars

\* -------------------------------------------------------------- properties
\* The input NBLs, in chain order, whose classification is k.
InputNblsWith(k) ==
    SelectSeq([n \in 1 .. input.len |-> n], LAMBDA n : input.cls[n] = k)

QueueContents(st, q) == NblsInChain(st.Next, st.Queues[q].First)

NoPrior(st) == \A q \in DOMAIN st.prior : st.prior[q] = 0

\* C1: when NdisClassifyNblChain2 returns, Queue0 holds its prior contents
\* followed by the input NBLs classified 0, and Queue1 its prior contents
\* followed by those classified 1, each in input order; classifications
\* 0,0,1,1,0 on two empty queues give Queue0 = 1,2,5 and Queue1 = 3,4.
C1_Classify2StablePartition ==
    (s.op = "Classify2" /\ s.pc = "done") =>
        /\ \A q \in 0 .. 1 :
              QueueContents(s, q) = PriorContents(s.prior, q) \o InputNblsWith(q)
        /\ (input.cls = <<0, 0, 1, 1, 0>> /\ NoPrior(s)) =>
              /\ QueueContents(s, 0) = <<1, 2, 5>>
              /\ QueueContents(s, 1) = <<3, 4>>

C1_Witness ==
    /\ s.op = "Classify2" /\ s.pc = "done"
    /\ input.cls = <<0, 0, 1, 1, 0>>
    /\ NoPrior(s)
    /\ QueueContents(s, 0) = <<1, 2, 5>>
    /\ QueueContents(s, 1) = <<3, 4>>

\* C2: when NdisClassifyNblChainByIndex returns, every Queues[i] holds its
\* contents before the call followed by the input NBLs classified i, in
\* input order, and a queue that no NBL selects is unchanged.
C2_ByIndexStablePartition ==
    (s.op = "ByIndex" /\ s.pc = "done") =>
        \A q \in 0 .. (s.NumberOfQueues - 1) :
            /\ QueueContents(s, q) = PriorContents(s.prior, q) \o InputNblsWith(q)
            /\ InputNblsWith(q) = <<>> => s.Queues[q] = PriorQueue(s.prior, q)

C2_Witness ==
    /\ s.op = "ByIndex" /\ s.pc = "done"
    /\ s.NumberOfQueues = 3
    /\ input.cls = <<2, 0, 2, 0, 0>>
    /\ s.prior = [q \in 0 .. 2 |-> IF q = 2 THEN 1 ELSE 0]
    /\ QueueContents(s, 0) = <<2, 4, 5>>
    /\ s.Queues[1] = EmptyQueue
    /\ QueueContents(s, 2) = <<PriorNbl(2, 1), 1, 3>>

RECURSIVE Flatten(_)
Flatten(batches) ==
    IF batches = <<>> THEN <<>> ELSE Head(batches).nbls \o Flatten(Tail(batches))

Delivered(st) == Flatten(st.flushed)

ValueClassifiers == {"ByValue", "Lookahead", "Partial"}

\* C3: when the eager classifier, the lookahead classifier or the loop of
\* partial classifications has finished, every input NBL has been delivered
\* in exactly one batch, once, and nothing else has been delivered.
C3_EveryNblDeliveredOnce ==
    (s.op \in ValueClassifiers /\ s.pc = "done") =>
        /\ Len(Delivered(s)) = input.len
        /\ {Delivered(s)[j] : j \in 1 .. Len(Delivered(s))} = 1 .. input.len

C3_Witness ==
    /\ s.op = "Lookahead" /\ s.pc = "done" /\ s.Depth = 2
    /\ input.cls = <<0, 1, 2, 0, 1, 1>>
    /\ Len(s.flushed) = 5
    /\ Len(Delivered(s)) = 6

\* The maximal runs of equal classifications of the input chain from NBL n
\* on, each with its classification.
RunEnd(n) ==
    CHOOSE e \in n .. input.len :
        /\ \A k \in n .. e : input.cls[k] = input.cls[n]
        /\ e < input.len => input.cls[e + 1] # input.cls[n]

RECURSIVE MaximalRuns(_)
MaximalRuns(n) ==
    IF n > input.len
    THEN <<>>
    ELSE <<[key |-> input.cls[n], nbls |-> [j \in 1 .. (RunEnd(n) - n + 1) |-> n + j - 1]]>>
         \o MaximalRuns(RunEnd(n) + 1)

\* C4: NdisClassifyNblChainByValue calls the flush callback once per maximal
\* run of equal classifications, in input order, with the run's
\* classification and the run's NBLs in order; A,B,A,B,A,B gives six
\* callbacks of one NBL and A,A,B,B,A gives three (A,A then B,B then A).
C4_ByValueFlushesMaximalRuns ==
    (s.op = "ByValue" /\ s.pc = "done") =>
        /\ s.flushed = MaximalRuns(1)
        /\ input.cls = <<0, 1, 0, 1, 0, 1>> =>
              s.flushed = [j \in 1 .. 6 |-> [key |-> (j + 1) % 2, nbls |-> <<j>>]]
        /\ input.cls = <<0, 0, 1, 1, 0>> =>
              s.flushed = << [key |-> 0, nbls |-> <<1, 2>>],
                             [key |-> 1, nbls |-> <<3, 4>>],
                             [key |-> 0, nbls |-> <<5>>] >>

C4_Witness ==
    /\ s.op = "ByValue" /\ s.pc = "done"
    /\ input.cls = <<0, 0, 1, 1, 0>>
    /\ Len(s.flushed) = 3
    /\ s.flushed[3] = [key |-> 0, nbls |-> <<5>>]

\* C5: with a lookahead depth of at least 2, six NBLs classified A,B,A,B,A,B
\* give exactly two flush callbacks: A with the three A NBLs in input order,
\* then B with the three B NBLs in input order.
C5_LookaheadCoalescesABABAB ==
    \A A, B \in Keys :
        (/\ s.op = "Lookahead" /\ s.pc = "done"
         /\ s.Depth >= 2
         /\ A # B
         /\ input.cls = <<A, B, A, B, A, B>>) =>
            s.flushed = << [key |-> A, nbls |-> <<1, 3, 5>>],
                           [key |-> B, nbls |-> <<2, 4, 6>>] >>

C5_Witness ==
    /\ s.op = "Lookahead" /\ s.pc = "done"
    /\ s.Depth = NDIS_CLASSIFY_NBL_LOOKHEAD_DEPTH
    /\ input.cls = <<0, 1, 0, 1, 0, 1>>
    /\ Len(s.flushed) = 2
    /\ s.flushed[1].nbls = <<1, 3, 5>>

\* The lookahead classifier is about to scan an NBL whose classification is
\* not the current slot's, while every slot is valid and none holds it.
MustEvict(st) ==
    /\ st.op = "Lookahead" /\ st.pc = "loop"
    /\ st.Next[st.Nbl] # NULL
    /\ \A i \in Slots(st.Depth) :
          /\ st.Valid[i]
          /\ st.TargetClassification[i] # input.cls[st.Next[st.Nbl]]

C7_LookaheadBatchesHomogeneous ==
    s.op = "Lookahead" =>
        \A b \in 1 .. Len(s.flushed) :
            LET batch == s.flushed[b]
            IN  /\ Len(batch.nbls) >= 1
                /\ \A j \in 1 .. Len(batch.nbls) :
                      /\ batch.nbls[j] \in 1 .. input.len
                      /\ input.cls[batch.nbls[j]] = batch.key
                /\ \A j \in 1 .. (Len(batch.nbls) - 1) : batch.nbls[j] < batch.nbls[j + 1]

C7_Witness ==
    /\ s.op = "Lookahead" /\ s.pc = "done" /\ s.Depth = 2
    /\ input.cls = <<0, 1, 0, 1, 2>>
    /\ s.flushed = << [key |-> 0, nbls |-> <<1, 3>>],
                      [key |-> 2, nbls |-> <<5>>],
                      [key |-> 1, nbls |-> <<2, 4>>] >>

\* C8: for every lookahead depth, the lookahead classifier makes no more
\* flush callbacks than NdisClassifyNblChainByValue makes on the same chain.
C8_LookaheadNoMoreFlushesThanEager ==
    (s.op = "Lookahead" /\ s.pc = "done") => Len(s.flushed) <= Len(ByValueFlushes)

C8_Witness ==
    /\ s.op = "Lookahead" /\ s.pc = "done" /\ s.Depth = 2
    /\ input.cls = <<0, 1, 0, 1, 2, 2>>
    /\ Len(s.flushed) = 3
    /\ Len(ByValueFlushes) = 5

\* The chain a partial classification was called on, and the length of its
\* longest prefix of NBLs classified as its first NBL is.
EntryChain(st) == NblsInChain(st.entry.Next, st.entry.NblChain)

PrefixLen(chain) ==
    CHOOSE p \in 1 .. Len(chain) :
        /\ \A j \in 1 .. p : input.cls[chain[j]] = input.cls[chain[1]]
        /\ p < Len(chain) => input.cls[chain[p + 1]] # input.cls[chain[1]]

PartialReturned(st) == st.op = "Partial" /\ st.pc \in {"call", "done"}

\* C9: when NdisPartialClassifyNblChainByValue returns, HomogenousQueue holds
\* exactly the longest prefix of the chain classified as its first NBL is,
\* in order and null-terminated; ClassificationResult, when supplied, is
\* that classification; *NblChain is the first NBL after the prefix, NULL
\* exactly when the prefix is the whole chain; the remainder's links are
\* unchanged.
C9_PartialReturnsFirstRun ==
    PartialReturned(s) =>
        LET chain == EntryChain(s)
            p == PrefixLen(chain)
        IN  /\ NblsInChain(s.Next, s.HomogenousQueue.First) = SubSeq(chain, 1, p)
            /\ s.HomogenousQueue.First = chain[1]
            /\ s.HomogenousQueue.Last = chain[p]
            /\ s.Next[chain[p]] = NULL
            /\ s.ResultPresent => s.ClassificationResult = input.cls[chain[1]]
            /\ s.NblChain = (IF p = Len(chain) THEN NULL ELSE chain[p + 1])
            /\ \A j \in (p + 1) .. Len(chain) : s.Next[chain[j]] = s.entry.Next[chain[j]]

C9_Witness ==
    /\ PartialReturned(s)
    /\ s.ResultPresent
    /\ input.cls = <<0, 0, 1, 1, 0>>
    /\ s.returns = 2
    /\ EntryChain(s) = <<3, 4, 5>>
    /\ s.HomogenousQueue = [First |-> 3, Last |-> 4]
    /\ s.ClassificationResult = 1
    /\ s.NblChain = 5

\* C10: calling NdisPartialClassifyNblChainByValue on the remainder until it
\* is NULL yields, call by call, the batches that the flush callbacks of one
\* NdisClassifyNblChainByValue call on the same chain receive: the same
\* NBLs in the same order, and the same classifications where the caller
\* asks for them.
C10_PartialLoopMatchesEager ==
    (s.op = "Partial" /\ s.pc = "done") =>
        /\ Len(s.flushed) = Len(ByValueFlushes)
        /\ s.returns = Len(ByValueFlushes)
        /\ \A b \in 1 .. Len(s.flushed) :
              /\ s.flushed[b].nbls = ByValueFlushes[b].nbls
              /\ s.ResultPresent => s.flushed[b].key = ByValueFlushes[b].key

C10_Witness ==
    /\ s.op = "Partial" /\ s.pc = "done"
    /\ s.ResultPresent
    /\ input.cls = <<0, 0, 1, 1, 0>>
    /\ s.returns = 3
    /\ s.flushed = ByValueFlushes
    /\ s.flushed[2] = [key |-> 1, nbls |-> <<3, 4>>]

\* C11: when NdisPartialClassifyNblChainByValueWithCount returns, the count of
\* HomogenousQueue is the number of NBLs of the run that the queue holds.
C11_PartialCountIsRunLength ==
    (s.op = "PartialWithCount" /\ s.pc \in {"call", "done"}) =>
        s.HomogenousQueue.NblCount =
            Len(NblsInChain(s.Next, s.HomogenousQueue.First))

RECURSIVE SumTo(_, _)
SumTo(f, n) == IF n < 0 THEN 0 ELSE f[n] + SumTo(f, n - 1)

\* C12: when NdisClassifyNblChain2WithCount or
\* NdisClassifyNblChainByIndexWithCount returns, the count of every output
\* queue is the number of NBLs reachable from its head, which is its count
\* before the call plus the number of input NBLs classified into it, and the
\* counts added over all queues sum to the length of the input chain.
C12_IndexCountsMatchQueues ==
    (s.op \in {"Classify2WithCount", "ByIndexWithCount"} /\ s.pc = "done") =>
        /\ \A q \in 0 .. (s.NumberOfQueues - 1) :
              /\ s.Queues[q].NblCount = Len(QueueContents(s, q))
              /\ s.Queues[q].NblCount = s.prior[q] + Len(InputNblsWith(q))
              /\ QueueContents(s, q) = PriorContents(s.prior, q) \o InputNblsWith(q)
        /\ SumTo([q \in 0 .. (s.NumberOfQueues - 1) |-> s.Queues[q].NblCount - s.prior[q]],
                 s.NumberOfQueues - 1) = input.len

C12_Witness ==
    /\ s.op = "ByIndexWithCount" /\ s.pc = "done"
    /\ s.NumberOfQueues = 3
    /\ input.cls = <<2, 2, 0, 2, 0, 0>>
    /\ s.prior = [q \in 0 .. 2 |-> IF q = 2 THEN 1 ELSE 0]
    /\ s.Queues[0].NblCount = 3
    /\ s.Queues[1] = EmptyCountedQueue
    /\ s.Queues[2].NblCount = 4
    /\ QueueContents(s, 2) = <<PriorNbl(2, 1), 1, 2, 4>>

\* C13: at every flush callback of NdisClassifyNblChainByValueWithCount and
\* NdisClassifyNblChainByValueLookaheadWithCount, the count of the queue
\* passed is the number of NBLs in that queue, also when the lookahead
\* classifier has assembled the queue from runs that were not adjacent.
C13_FlushedCountIsBatchLength ==
    s.op \in {"ByValueWithCount", "LookaheadWithCount"} =>
        \A b \in 1 .. Len(s.flushed) :
            /\ s.flushed[b].count = Len(s.flushed[b].nbls)
            /\ s.flushed[b].count >= 1

C13_Witness ==
    /\ s.op = "LookaheadWithCount" /\ s.pc = "done" /\ s.Depth = 2
    /\ input.cls = <<0, 0, 1, 0, 1, 1>>
    /\ s.flushed = << [key |-> 0, nbls |-> <<1, 2, 4>>, count |-> 3],
                      [key |-> 1, nbls |-> <<3, 5, 6>>, count |-> 3] >>

\* The NBLs of the caller's queue, and those of all chains it has appended.
CallerQueueContents(st) == NblsInChain(st.Next, st.Queue.First)

Appended(st) == Flatten(st.flushed)

\* C14: after init and any sequence of append_chain, append_single and
\* from_chain calls with non-empty chains that are disjoint from the queue and
\* end at the tail given, a queue whose head is not null has a tail that is
\* reachable from the head and whose Next is null, and the queue's chain is
\* the concatenation of the appended chains in call order.
C14_QueueIsConcatenationOfAppends ==
    s.op = "Queue" =>
        /\ s.Queue.First # NULL =>
              /\ \E j \in 1 .. Len(CallerQueueContents(s)) :
                    CallerQueueContents(s)[j] = s.Queue.Last
              /\ s.Next[s.Queue.Last] = NULL
        /\ CallerQueueContents(s) = Appended(s)
        /\ (s.Queue.First = NULL) <=> (s.flushed = <<>>)

C14_Witness ==
    /\ s.op = "Queue"
    /\ s.flushed = << [key |-> "append_chain", nbls |-> <<1, 2>>],
                      [key |-> "append_single", nbls |-> <<3>>],
                      [key |-> "from_chain", nbls |-> <<4, 5>>] >>
    /\ s.Queue = [First |-> 1, Last |-> 5]
    /\ CallerQueueContents(s) = <<1, 2, 3, 4, 5>>
    /\ s.NblChain = 6

\* The queue and heap after one append, to an empty queue, of the chain made
\* of X followed by Y.
AppendedAtOnce(X, Y) ==
    NdisAppendNblChainToNblQueueFast(
        [InputChain(input.len) EXCEPT ![Y[Len(Y)]] = NULL],
        NdisInitializeNblQueue, X[1], Y[Len(Y)])

\* C15: appending a non-empty chain X and then a non-empty chain Y to an
\* empty queue gives the same head, the same tail and the same sequence of
\* NBLs as appending the chain X followed by Y in one append.
C15_TwoAppendsEqualOneAppend ==
    (s.op = "Queue" /\ Len(s.flushed) = 2) =>
        LET X == s.flushed[1].nbls
            Y == s.flushed[2].nbls
            once == AppendedAtOnce(X, Y)
        IN  /\ s.Queue.First = once.Q.First
            /\ s.Queue.Last = once.Q.Last
            /\ CallerQueueContents(s) = NblsInChain(once.Next, once.Q.First)
            /\ CallerQueueContents(s) = X \o Y

C15_Witness ==
    /\ s.op = "Queue"
    /\ s.flushed = << [key |-> "append_chain", nbls |-> <<1, 2, 3>>],
                      [key |-> "append_chain", nbls |-> <<4, 5>>] >>
    /\ s.Queue = AppendedAtOnce(<<1, 2, 3>>, <<4, 5>>).Q
    /\ CallerQueueContents(s) = <<1, 2, 3, 4, 5>>

\* C16: after init and any sequence of appends and pops on a counted queue,
\* its count is the number of NBLs met by walking its chain from the head,
\* and the count is 0 exactly when the head is null.
C16_CountIsChainLength ==
    s.op = "CountedQueue" =>
        /\ s.Queue.NblCount = Len(CallerQueueContents(s))
        /\ (s.Queue.NblCount = 0) <=> (s.Queue.First = NULL)
        /\ CallerQueueContents(s) =
              SubSeq(Appended(s), s.returns + 1, Len(Appended(s)))

C16_Witness ==
    /\ s.op = "CountedQueue"
    /\ s.flushed = << [key |-> "append_chain", nbls |-> <<1, 2>>],
                      [key |-> "append_single", nbls |-> <<3>>] >>
    /\ s.returns = 1
    /\ s.Nbl = 1
    /\ CallerQueueContents(s) = <<2, 3>>
    /\ s.Queue.NblCount = 2

\* The lookahead classifier is about to scan an NBL whose classification is
\* not that of the slot last extended.
LeavesCurrentSlot(st) ==
    /\ st.op = "Lookahead" /\ st.pc = "loop"
    /\ st.Next[st.Nbl] # NULL
    /\ st.TargetClassification[st.PreviousIndex] # input.cls[st.Next[st.Nbl]]

EmptySlots(st) == {i \in Slots(st.Depth) : ~st.Valid[i]}

SlotsHolding(st, k) ==
    {i \in Slots(st.Depth) : st.Valid[i] /\ st.TargetClassification[i] = k}

StartsRunIn(st, i, k) ==
    /\ st.PreviousIndex = i
    /\ st.Valid[i]
    /\ st.TargetClassification[i] = k
    /\ st.Queue[i] = EmptyQueue

\* C17, as stated: on leaving the current slot, an empty slot, if there is
\* one, gets a new run, also when another slot already holds the NBL's
\* classification; with no empty slot, a slot holding the classification is
\* resumed; otherwise a slot is evicted, flushed and reused.
C17_EmptySlotBeforeResume ==
    [][LeavesCurrentSlot(s) =>
          LET k == input.cls[s.Next[s.Nbl]]
          IN  IF EmptySlots(s) # {}
              THEN /\ s'.PreviousIndex \in EmptySlots(s)
                   /\ StartsRunIn(s', s'.PreviousIndex, k)
                   /\ s'.flushed = s.flushed
              ELSE IF SlotsHolding(s, k) # {}
              THEN /\ s'.PreviousIndex \in SlotsHolding(s, k)
                   /\ s'.Valid = s.Valid
                   /\ s'.flushed = s.flushed
              ELSE /\ Len(s'.flushed) = Len(s.flushed) + 1
                   /\ StartsRunIn(s', s'.PreviousIndex, k)]_vars

\* C17, amended: on leaving the current slot, a slot that already holds the
\* NBL's classification is resumed, whether or not an empty slot exists;
\* if none holds it, the lowest empty slot gets a new run; if there is no
\* empty slot either, a slot is evicted, flushed and reused.
C17_ResumeBeforeEmptySlot ==
    [][LeavesCurrentSlot(s) =>
          LET k == input.cls[s.Next[s.Nbl]]
          IN  IF SlotsHolding(s, k) # {}
              THEN /\ s'.PreviousIndex \in SlotsHolding(s, k)
                   /\ s'.Valid = s.Valid
                   /\ s'.TargetClassification = s.TargetClassification
                   /\ s'.flushed = s.flushed
              ELSE IF EmptySlots(s) # {}
              THEN /\ s'.PreviousIndex \in EmptySlots(s)
                   /\ \A j \in EmptySlots(s) : s'.PreviousIndex <= j
                   /\ StartsRunIn(s', s'.PreviousIndex, k)
                   /\ s'.flushed = s.flushed
              ELSE /\ Len(s'.flushed) = Len(s.flushed) + 1
                   /\ StartsRunIn(s', s'.PreviousIndex, k)]_vars

\* Slot 0 has been resumed for the third NBL while slots 2 and 3 were empty.
C17_Witness ==
    /\ s.op = "Lookahead" /\ s.pc = "loop"
    /\ s.Depth = NDIS_CLASSIFY_NBL_LOOKHEAD_DEPTH
    /\ input.cls = <<0, 1, 0, 2>>
    /\ s.Nbl = 3
    /\ s.PreviousIndex = 0
    /\ s.FirstNbl = 3
    /\ EmptySlots(s) = {2, 3}
    /\ NblsInChain(s.Next, s.Queue[0].First) = <<1>>

UsedSlots(st) == {i \in Slots(st.Depth) : st.Valid[i]}

\* The batch that a flush of slot i delivers.
SlotBatch(st, i) ==
    [key |-> st.TargetClassification[i], nbls |-> NblsInChain(st.Next, st.Queue[i].First)]

\* C18: throughout a lookahead call the used slots are the indices 0 .. m-1
\* for some m >= 1; the final loop makes one callback per pass, for slot
\* 0, 1, ... in this order, and when the call is done it has flushed each of
\* the m used slots once and no slot that was never used.
C18_FinalFlushInSlotOrder ==
    /\ [](s.op = "Lookahead" =>
            /\ \E m \in 1 .. s.Depth : UsedSlots(s) = 0 .. (m - 1)
            /\ s.pc \in {"flush", "done"} =>
                  /\ s.i <= Cardinality(UsedSlots(s))
                  /\ s.i <= Len(s.flushed)
                  /\ \A j \in 0 .. (s.i - 1) :
                        s.flushed[Len(s.flushed) - s.i + j + 1] = SlotBatch(s, j)
            /\ s.pc = "done" => s.i = Cardinality(UsedSlots(s)))
    /\ [][(s.op = "Lookahead" /\ s.pc = "flush") =>
             /\ Len(s'.flushed) - s'.i = Len(s.flushed) - s.i
             /\ s'.i \in {s.i, s.i + 1}
             /\ s'.Valid = s.Valid]_vars

C18_Witness ==
    /\ s.op = "Lookahead" /\ s.pc = "done"
    /\ s.Depth = NDIS_CLASSIFY_NBL_LOOKHEAD_DEPTH
    /\ input.cls = <<0, 1, 0, 2>>
    /\ UsedSlots(s) = {0, 1, 2}
    /\ s.i = 3
    /\ s.flushed = << [key |-> 0, nbls |-> <<1, 3>>],
                      [key |-> 1, nbls |-> <<2>>],
                      [key |-> 2, nbls |-> <<4>>] >>

SetOf(seq) == {seq[j] : j \in 1 .. Len(seq)}

\* The NBLs the classifier still holds: those of the run in progress and of
\* the input not yet scanned, and those queued in slots not yet flushed.
StillHeld(st) ==
    LET ahead == IF st.pc = "loop" THEN SetOf(NblsInChain(st.Next, st.FirstNbl)) ELSE {}
        slots == IF st.op = "Lookahead" /\ st.pc \in {"loop", "flush"}
                 THEN {i \in Slots(st.Depth) :
                          st.Valid[i] /\ (st.pc = "flush" => i >= st.i)}
                 ELSE {}
    IN  ahead \cup UNION {SetOf(NblsInChain(st.Next, st.Queue[i].First)) : i \in slots}

\* The callbacks of the same call when the callback leaves the batch alone.
UndisturbedFlushes(st) ==
    IF st.op = "ByValue"
    THEN ByValueFlushes
    ELSE RunToDone(NdisClassifyNblChainByValueLookahead_Entry(Idle(input.len), st.Depth),
                   StepLimit).flushed

\* C19: in the eager and the lookahead classifier, every batch passed to the
\* flush callback is null-terminated and shares no NBL with the input not
\* yet scanned or with a slot still in flight; after the callback the
\* classifier neither writes the Next field of an NBL of the batch (the
\* links the callback left are still there) nor reads it (the rest of the
\* pass makes the callbacks it makes when the batches are left alone).
C19_FlushedBatchIsReleased ==
    s.op \in {"ByValue", "Lookahead"} =>
        /\ \A b \in 1 .. Len(s.flushed) :
              LET nbls == s.flushed[b].nbls
              IN  /\ Len(nbls) >= 1
                  /\ Cardinality(SetOf(nbls)) = Len(nbls)
                  /\ \A j \in 1 .. Len(nbls) : s.Next[nbls[j]] = nbls[1]
        /\ SetOf(Delivered(s)) \cap StillHeld(s) = {}
        /\ s.pc = "loop" => s.Nbl \in StillHeld(s)
        /\ s.pc = "done" => s.flushed = UndisturbedFlushes(s)

C19_Witness ==
    /\ s.op = "Lookahead" /\ s.pc = "loop" /\ s.Depth = 2
    /\ input.cls = <<0, 0, 1, 2, 0, 0>>
    /\ s.flushed = << [key |-> 0, nbls |-> <<1, 2>>], [key |-> 1, nbls |-> <<3>>] >>
    /\ s.Next[1] = 1 /\ s.Next[2] = 1 /\ s.Next[3] = 3
    /\ s.Nbl = 6
    /\ StillHeld(s) = {4, 5, 6}

IndexClassifiers == {"Classify2", "ByIndex", "Classify2WithCount", "ByIndexWithCount"}

\* C20: when NdisClassifyNblChain2, NdisClassifyNblChainByIndex or one of
\* their WithCount variants returns from a chain of n NBLs that form r
\* maximal runs of one index, it has called the classification callback n
\* times, once per NBL in chain order; it has set r-1 Next fields to NULL,
\* that of the last NBL of every run but the final one; and it has made r
\* appends, one per run, of the run's first to last NBL.
C20_OneCallPerNblOneAppendPerRun ==
    (s.op \in IndexClassifiers /\ s.pc = "done") =>
        LET runs == MaximalRuns(1)
            r == Len(runs)
        IN  /\ s.classified = [j \in 1 .. input.len |-> j]
            /\ s.cuts = [j \in 1 .. (r - 1) |-> runs[j].nbls[Len(runs[j].nbls)]]
            /\ s.appends = [j \in 1 .. r |->
                              [First |-> runs[j].nbls[1],
                               Last |-> runs[j].nbls[Len(runs[j].nbls)]]]

C20_Witness ==
    /\ s.op = "ByIndex" /\ s.pc = "done"
    /\ input.cls = <<1, 1, 0, 2, 2, 1>>
    /\ s.classified = <<1, 2, 3, 4, 5, 6>>
    /\ s.cuts = <<2, 3, 5>>
    /\ Len(s.appends) = 4
    /\ s.appends[4] = [First |-> 6, Last |-> 6]

EntryPoints == {"Classify2", "ByIndex", "ByValue", "Lookahead", "Partial"}

InsideCall(st) == st.op \in EntryPoints /\ st.pc \in {"loop", "flush", "tail"}

HasReturned(st) ==
    st.op \in EntryPoints /\ (st.pc = "done" \/ (st.op = "Partial" /\ st.pc = "call"))

\* The last m classification callbacks.
LastClassified(st, m) ==
    SubSeq(st.classified, Len(st.classified) - m + 1, Len(st.classified))

\* What a routine that has returned has advanced over.
AdvancedOverOnce(st) ==
    IF ~HasReturned(st) THEN TRUE
    ELSE IF st.op = "Partial"
    THEN LET chain == EntryChain(st)
             p == PrefixLen(chain)
             m == IF p < Len(chain) THEN p + 1 ELSE p
         IN  /\ Len(st.classified) >= m
             /\ LastClassified(st, m) = SubSeq(chain, 1, m)
             /\ IF st.returns = 1 THEN st.classified = SubSeq(chain, 1, m) ELSE TRUE
    ELSE st.classified = [j \in 1 .. input.len |-> j]

\* A bound on the steps a routine that has been called has left: the NBLs it
\* has not advanced over, the slots it has not flushed, and its exit.
StepsLeft(st) ==
    IF st.pc = "loop"
    THEN Len(NblsInChain(st.Next, st.Nbl))
            + (IF st.op = "Lookahead" THEN st.Depth ELSE 0) + 2
    ELSE IF st.pc = "flush" THEN (st.Depth - st.i) + 1
    ELSE IF st.pc = "tail" THEN 1
    ELSE 0

\* Inside a call the routine has a next step.  The steps of the value
\* classifiers are guarded by the routine's place alone.
HasNextStep(st) ==
    IF st.op = "Classify2" THEN (ENABLED Classify2Iterate) \/ (ENABLED Classify2Return)
    ELSE IF st.op = "ByIndex" THEN (ENABLED ByIndexIterate) \/ (ENABLED ByIndexReturn)
    ELSE IF st.op = "ByValue" THEN st.pc = "loop"
    ELSE IF st.op = "Lookahead" THEN st.pc \in {"loop", "flush"}
    ELSE st.pc \in {"loop", "tail"}

\* C21: on a finite, null-terminated, non-empty chain every classification
\* entry point that has been called returns: inside a call the routine
\* always has a next step, and every step takes at least one from the
\* bounded number of steps left, which is never negative.  The two-way,
\* N-way, eager and lookahead routines have then advanced over every NBL of
\* the input once, in order, and a partial classification over every NBL of
\* the first run of its chain and the first NBL after it, once, in order.
C21_EveryEntryPointTerminates ==
    /\ [](IF InsideCall(s) THEN HasNextStep(s) ELSE TRUE)
    /\ [][IF InsideCall(s) THEN StepsLeft(s') < StepsLeft(s) /\ StepsLeft(s') >= 0
                            ELSE InsideCall(s')]_vars
    /\ []AdvancedOverOnce(s)

C21_Witness ==
    /\ s.op = "Lookahead" /\ s.pc = "done" /\ s.Depth = 2
    /\ input.len = MaxLen
    /\ input.cls = [j \in 1 .. MaxLen |-> j % NumKeys]
    /\ s.classified = [j \in 1 .. MaxLen |-> j]

\* C22: with assertions compiled out, an NBL for which the classification
\* callback returns an index out of the declared range (0 and 1 for
\* NdisClassifyNblChain2, below NumberOfQueues for
\* NdisClassifyNblChainByIndex) is in none of the caller's queues when the
\* routine returns.
C22_OutOfRangeIsNotQueued ==
    (s.op \in {"Classify2", "ByIndex"} /\ s.pc = "done") =>
        \A n \in 1 .. input.len :
            input.cls[n] >= s.NumberOfQueues =>
                \A q \in DOMAIN s.Queues : n \notin SetOf(QueueContents(s, q))

\* The NBLs on the cycle of the chain 1 -> ... -> len -> back.
OnCycle == input.back .. input.len

\* The classification callback gives every NBL on the cycle the same value.
SameOnCycle == \A m, n \in OnCycle : input.cls[m] = input.cls[n]

\* C23 as stated: on a chain that contains a cycle no classification routine
\* returns, whatever the classification callback returns.
C23_CycleNeverReturns == ~HasReturned(s)

\* The classification callback gives every NBL of the chain the same value.
SameOnChain == \A n \in 1 .. input.len : input.cls[n] = input.cls[1]

\* C23: on a chain that contains a cycle, a classification routine never
\* returns (once called it is inside its loop, and has a next step) if the
\* callback returns the same value for every NBL on the cycle and, for the
\* partial classification, for the NBLs before the cycle too.
C23_UniformCycleNeverReturns ==
    (s.op # "idle" /\ (IF s.op = "Partial" THEN SameOnChain ELSE SameOnCycle)) =>
        /\ s.pc = "loop"
        /\ Len(s.classified) < MaxCallbacks => ENABLED CyclicStep

\* Twice around a cycle of MaxRing NBLs, after a run that was cut off.
C23_Witness ==
    /\ SameOnCycle /\ ~SameOnChain
    /\ input.len = MaxRing /\ input.back = 2
    /\ s.op = "Classify2" /\ s.pc = "loop"
    /\ Len(s.classified) = MaxCallbacks

LookaheadClassifiers == {"Lookahead", "LookaheadWithCount"}

\* Slot i is in use: Valid[i] in the routine without counts, Count[i] != 0
\* in the routine with counts.
SlotUsed(st, i) == IF st.op = "Lookahead" THEN st.Valid[i] ELSE st.Count[i] # 0

\* C24: throughout a call of the lookahead classifier, with or without
\* counts, no two slots in use hold the same classification, and a slot in
\* use stays in use: the pass that evicts a slot gives it to the new
\* classification.
C24_UsedSlotsDistinctAndStayUsed ==
    /\ [](s.op \in LookaheadClassifiers =>
            \A i, j \in Slots(s.Depth) :
                (i # j /\ SlotUsed(s, i) /\ SlotUsed(s, j)) =>
                    s.TargetClassification[i] # s.TargetClassification[j])
    /\ [][s.op \in LookaheadClassifiers =>
            \A i \in Slots(s.Depth) : SlotUsed(s, i) => SlotUsed(s', i)]_vars

\* Both slots in use after an eviction gave slot 0 to the third
\* classification.
C24_Witness ==
    /\ s.op = "LookaheadWithCount" /\ s.pc = "loop" /\ s.Depth = 2
    /\ Len(s.classified) = 3 /\ Len(s.flushed) = 1
    /\ SlotUsed(s, 0) /\ SlotUsed(s, 1)
    /\ s.TargetClassification = [i \in Slots(2) |-> IF i = 0 THEN 2 ELSE 1]

\* The NBLs that are the first of their classification, in input order.
FirstAppearances ==
    SelectSeq([n \in 1 .. input.len |-> n],
              LAMBDA n : \A m \in 1 .. (n - 1) : input.cls[m] # input.cls[n])

\* C25: when the chain has no more distinct classifications than the
\* lookahead classifier has slots, the classifier makes no callback before
\* its final loop, and when it is done it has made one callback per distinct
\* classification, in the order in which the classifications first appear,
\* each with all NBLs of that classification in input order; A,A,B,B,A gives
\* A with NBLs 1,2,5 and then B with NBLs 3,4.
C25_FlushesOncePerKeyWithoutEviction ==
    (s.op = "Lookahead" /\ Len(FirstAppearances) <= s.Depth) =>
        /\ s.pc = "loop" => s.flushed = <<>>
        /\ s.pc = "done" =>
              s.flushed = [j \in 1 .. Len(FirstAppearances) |->
                              LET k == input.cls[FirstAppearances[j]]
                              IN  [key |-> k, nbls |-> InputNblsWith(k)]]
        /\ (s.pc = "done" /\ input.len = 5
               /\ input.cls[1] = input.cls[2] /\ input.cls[1] = input.cls[5]
               /\ input.cls[3] = input.cls[4] /\ input.cls[1] # input.cls[3]) =>
              s.flushed = << [key |-> input.cls[1], nbls |-> <<1, 2, 5>>],
                             [key |-> input.cls[3], nbls |-> <<3, 4>>] >>

C25_Witness ==
    /\ s.op = "Lookahead" /\ s.pc = "done" /\ s.Depth = 2
    /\ input.cls = <<0, 0, 1, 1, 0>>
    /\ s.flushed = << [key |-> 0, nbls |-> <<1, 2, 5>>], [key |-> 1, nbls |-> <<3, 4>>] >>

\* The state in which NdisClassifyNblChainByIndex returns when called with
\* the chain, the queues and the NumberOfQueues that st was called with.
ByIndexOnSameInput(st) ==
    RunToDone(NdisClassifyNblChainByIndex_Entry(Idle(input.len), st.prior,
                                                st.NumberOfQueues), StepLimit)

\* C26: before and after every pass through the loop of
\* NdisClassifyNblChainByIndexWithCount, and so at its exit, ThisIndex =
\* CurrentIndex; when the routine returns, every Queues[i] holds the NBLs,
\* in the order, that NdisClassifyNblChainByIndex puts there.
C26_WithCountQueuesAsByIndex ==
    (s.op = "ByIndexWithCount" /\ s.pc \in {"loop", "done"}) =>
        /\ s.ThisIndex = s.CurrentIndex
        /\ s.pc = "done" =>
              LET r == ByIndexOnSameInput(s)
              IN  \A i \in 0 .. (s.NumberOfQueues - 1) :
                      QueueContents(s, i) = QueueContents(r, i)

\* The final run is appended to a queue that already holds an earlier run
\* and a prior NBL.
C26_Witness ==
    /\ s.op = "ByIndexWithCount" /\ s.pc = "done" /\ s.NumberOfQueues = 3
    /\ input.cls = <<2, 0, 1, 2, 2>>
    /\ s.prior[2] = 1
    /\ QueueContents(s, 2) = <<PriorNbl(2, 1), 1, 4, 5>>
    /\ s.ThisIndex = 2

\* How often the classification callback was called for NBL n.
TimesClassified(st, n) ==
    Cardinality({j \in 1 .. Len(st.classified) : st.classified[j] = n})

\* NBL n is the first of a maximal run other than the first run.
StartsLaterRun(n) == n > 1 /\ input.cls[n] # input.cls[n - 1]

\* C27: on a chain of n NBLs in r maximal runs of one classification,
\* NdisClassifyNblChainByValue has called the classification callback n
\* times when it returns, once per NBL; the loop that calls
\* NdisPartialClassifyNblChainByValue until the remainder is NULL has called
\* it n + (r - 1) times when it ends: twice for the first NBL of every run
\* after the first, once for every other NBL.
C27_PartialLoopClassifiesRunStartsTwice ==
    /\ (s.op = "ByValue" /\ s.pc = "done") =>
          /\ Len(s.classified) = input.len
          /\ \A n \in 1 .. input.len : TimesClassified(s, n) = 1
    /\ (s.op = "Partial" /\ s.pc = "done") =>
          /\ Len(s.classified) = input.len + (Len(MaximalRuns(1)) - 1)
          /\ \A n \in 1 .. input.len :
                TimesClassified(s, n) = IF StartsLaterRun(n) THEN 2 ELSE 1

C27_Witness ==
    /\ s.op = "Partial" /\ s.pc = "done"
    /\ input.cls = <<0, 0, 1, 1, 0>>
    /\ s.classified = <<1, 2, 3, 3, 4, 5, 5>>

\* The step appends a chain with append_chain or append_single.
AppendsToQueue(how) ==
    /\ s.op = "Queue" /\ s'.op = "Queue"
    /\ Len(s'.flushed) = Len(s.flushed) + 1
    /\ s'.flushed[Len(s'.flushed)].key = how

\* C28: a step that appends the chain First .. Last to an NBL_QUEUE sets the
\* queue's First (if the queue was empty) and Last, the Next of the queue's
\* previous last NBL, to First, and the Next of Last, to NULL; the Next of
\* every other NBL is as before.  Appending one NBL p leaves the heap and
\* the queue as appending the chain p .. p does.
C28_AppendFrame ==
    [][(AppendsToQueue("append_chain") \/ AppendsToQueue("append_single")) =>
          LET app == s'.appends[Len(s'.appends)]
              old == s.Queue
          IN  /\ s'.Queue.Last = app.Last
              /\ s'.Queue.First = IF old.First = NULL THEN app.First ELSE old.First
              /\ old.First # NULL => s'.Next[old.Last] = app.First
              /\ s'.Next[app.Last] = NULL
              /\ \A n \in Nbls :
                    (n # app.Last /\ (old.First = NULL \/ n # old.Last)) =>
                        s'.Next[n] = s.Next[n]
              /\ AppendsToQueue("append_single") =>
                    LET cut == CallerCuts(s, 1)
                        chn == NdisAppendNblChainToNblQueueFast(cut.Next, old,
                                                                cut.First, cut.First)
                    IN  /\ app.First = app.Last
                        /\ s'.Next = chn.Next
                        /\ s'.Queue = chn.Q]_vars

\* A chain of three NBLs has been appended behind a queue of two, and one
\* NBL behind those.
C28_Witness ==
    /\ s.op = "Queue"
    /\ Len(s.flushed) = 3
    /\ s.flushed[1] = [key |-> "append_chain", nbls |-> <<1, 2>>]
    /\ s.flushed[2] = [key |-> "append_chain", nbls |-> <<3, 4, 5>>]
    /\ s.flushed[3] = [key |-> "append_single", nbls |-> <<6>>]
    /\ s.Queue = [First |-> 1, Last |-> 6]

\* C29: in a build with DBG, NDIS_ASSERT_NBL_CHAINS_DO_NOT_OVERLAP(Chain1,
\* Chain2) fails its assertion exactly when the two null-terminated chains
\* have an NBL in common; it does not fail when Chain1 or Chain2 is NULL.
C29_AssertsExactlyOnOverlap ==
    s.op = "ChainsDoNotOverlap" =>
        LET Nbls1 == SetOf(NblsInChain(input.Next, input.Chain1))
            Nbls2 == SetOf(NblsInChain(input.Next, input.Chain2))
        IN  /\ s.asserted <=> (Nbls1 \cap Nbls2 # {})
            /\ (input.Chain1 = NULL \/ input.Chain2 = NULL) => ~s.asserted

\* Two chains with different first NBLs that run into one another at their
\* last two NBLs.
C29_Witness ==
    /\ s.op = "ChainsDoNotOverlap" /\ s.asserted
    /\ NblsInChain(input.Next, input.Chain1) = <<1, 3, 5, 6>>
    /\ NblsInChain(input.Next, input.Chain2) = <<2, 4, 5, 6>>


\* The byte count of the first m MDLs of the caller's chain.
RECURSIVE BytesBefore(_)
BytesBefore(m) ==
    IF m <= 1 THEN 0 ELSE input.ByteCount[m - 1] + BytesBefore(m - 1)

\* The sum of the lengths of the first k sub-spans the operator was given.
RECURSIVE LengthOfCalls(_, _)
LengthOfCalls(calls, k) ==
    IF k = 0 THEN 0 ELSE calls[k].Length + LengthOfCalls(calls, k - 1)

\* The logical byte of the chain at which a sub-span starts.
LogicalStart(Subspan) == BytesBefore(Subspan.Start.Mdl) + Subspan.Start.Offset

\* The span lies within the caller's chain.
SpanInChain ==
    input.Span.Start.Offset + input.Span.Length
        <= BytesBefore(Len(input.ByteCount) + 1)

\* C30: MdlSpanIterateBuffers on a span within the chain, with an operator
\* that always returns STATUS_SUCCESS: every sub-span the operator is given
\* has a non-zero length and lies in its MDL's buffer, the sub-spans come in
\* chain order, the first starts at logical byte Offset and each next one
\* where the one before ended, no MDL of zero bytes is given to the operator,
\* and at the return the lengths sum to Length; the routine returns
\* STATUS_SUCCESS and does not report an overflow.
C30_SubspansTileTheSpan ==
    (s.op = "MdlSpanIterateBuffers" /\ SpanInChain /\ input.FailAt = 0) =>
        /\ \A k \in 1 .. Len(s.calls) :
              /\ s.calls[k].Length > 0
              /\ s.calls[k].Start.Offset + s.calls[k].Length
                     <= input.ByteCount[s.calls[k].Start.Mdl]
              /\ input.ByteCount[s.calls[k].Start.Mdl] # 0
              /\ k > 1 => s.calls[k - 1].Start.Mdl < s.calls[k].Start.Mdl
              /\ LogicalStart(s.calls[k])
                     = input.Span.Start.Offset + LengthOfCalls(s.calls, k - 1)
        /\ LengthOfCalls(s.calls, Len(s.calls)) + s.BytesRemaining
               = input.Span.Length
        /\ s.pc # "fatal"
        /\ s.pc = "done" =>
              /\ s.NtStatus = "STATUS_SUCCESS"
              /\ LengthOfCalls(s.calls, Len(s.calls)) = input.Span.Length

\* A span of three bytes from byte 1 of a chain of 2, 0 and 2 bytes: the
\* operator is given one byte of the first MDL and two of the third.
C30_Witness ==
    /\ s.op = "MdlSpanIterateBuffers" /\ s.pc = "done" /\ input.FailAt = 0
    /\ input.ByteCount = <<2, 0, 2>>
    /\ input.Span = [Start |-> [Mdl |-> 1, Offset |-> 1], Length |-> 3]
    /\ s.calls = << [Start |-> [Mdl |-> 1, Offset |-> 1], Length |-> 1],
                    [Start |-> [Mdl |-> 3, Offset |-> 0], Length |-> 2] >>


\* C31: MdlSpanIterateBuffers on a span with Offset plus Length greater than
\* the chain's byte count does not return unless the operator failed: it ends
\* in the fatal overflow report.
C31_OverflowIsFatal ==
    (s.op = "MdlSpanIterateBuffers" /\ ~SpanInChain /\ s.pc = "done") =>
        s.NtStatus # "STATUS_SUCCESS"

\* C31 for spans of at least one byte: with Offset plus Length greater than
\* the chain's byte count the routine returns only the operator's failure,
\* and the loop is left only into the overflow report.
C31_NonEmptyOverflowIsFatal ==
    (s.op = "MdlSpanIterateBuffers" /\ ~SpanInChain /\ input.Span.Length > 0) =>
        /\ s.pc = "done" => s.NtStatus # "STATUS_SUCCESS"
        /\ s.pc = "loop" /\ s.Mdl = NULL => s.BytesRemaining > 0

\* A span of two bytes from byte 1 of a chain of 2 bytes ends in the report
\* after the operator was given the chain's last byte.
C31_Witness ==
    /\ s.op = "MdlSpanIterateBuffers" /\ s.pc = "fatal"
    /\ input.ByteCount = <<2>>
    /\ input.Span = [Start |-> [Mdl |-> 1, Offset |-> 1], Length |-> 2]
    /\ s.calls = << [Start |-> [Mdl |-> 1, Offset |-> 1], Length |-> 1] >>


\* The byte count of the caller's whole chain.
TotalByteCount == BytesBefore(Len(input.ByteCount) + 1)

\* C32: MdlChainAdvanceBytes(MdlChain, AdvanceOffset), T being the chain's
\* byte count.  AdvanceOffset < T: it returns an MDL and an offset less than
\* the MDL's byte count, the bytes of the earlier MDLs plus the offset being
\* AdvanceOffset.  AdvanceOffset = T: it returns (NULL, 0).  AdvanceOffset >
\* T: it ends in the overflow report and does not return.  A returned pointer
\* is in normal form.
C32_AdvanceBytesFindsTheByte ==
    (s.op = "MdlChainAdvanceBytes" /\ s.pc \in {"done", "fatal"}) =>
        LET AdvanceOffset == input.Span.Start.Offset
        IN  /\ AdvanceOffset < TotalByteCount =>
                  /\ s.pc = "done"
                  /\ s.FoundMdl \in 1 .. Len(input.ByteCount)
                  /\ s.FoundMdlOffset < input.ByteCount[s.FoundMdl]
                  /\ BytesBefore(s.FoundMdl) + s.FoundMdlOffset = AdvanceOffset
            /\ AdvanceOffset = TotalByteCount =>
                  s.pc = "done" /\ s.FoundMdl = NULL /\ s.FoundMdlOffset = 0
            /\ AdvanceOffset > TotalByteCount => s.pc = "fatal"
            /\ s.pc = "done" =>
                  IF s.FoundMdl = NULL THEN s.FoundMdlOffset = 0
                  ELSE s.FoundMdlOffset < input.ByteCount[s.FoundMdl]

\* Advancing 2 bytes into a chain of 2, 0 and 1 bytes finds byte 0 of the
\* third MDL.
C32_Witness ==
    /\ s.op = "MdlChainAdvanceBytes" /\ s.pc = "done"
    /\ input.ByteCount = <<2, 0, 1>> /\ input.Span.Start.Offset = 2
    /\ s.FoundMdl = 3 /\ s.FoundMdlOffset = 0


\* The status the operator returned from its k-th invocation.
StatusOfCall(st, k) == Operator(SubSeq(st.calls, 1, k - 1), st.calls[k])

\* C33: in MdlChainIterateBuffers and MdlSpanIterateBuffers, an invocation of
\* the operator that returns a status other than STATUS_SUCCESS is the last
\* one, the routine has returned with it and the status returned is that
\* status; STATUS_SUCCESS is returned only if every invocation returned
\* STATUS_SUCCESS.
C33_FirstFailureStopsAndIsReturned ==
    s.op \in {"MdlChainIterateBuffers", "MdlSpanIterateBuffers"} =>
        /\ \A k \in 1 .. Len(s.calls) :
              StatusOfCall(s, k) # "STATUS_SUCCESS" =>
                  /\ k = Len(s.calls)
                  /\ s.pc = "done"
                  /\ s.NtStatus = StatusOfCall(s, k)
        /\ (s.pc = "done" /\ s.NtStatus = "STATUS_SUCCESS") =>
              \A k \in 1 .. Len(s.calls) : StatusOfCall(s, k) = "STATUS_SUCCESS"

\* MdlChainIterateBuffers on three MDLs of one byte with an operator that
\* fails at its second invocation: the third MDL is not visited.
C33_Witness ==
    /\ s.op = "MdlChainIterateBuffers" /\ s.pc = "done"
    /\ input.ByteCount = <<1, 1, 1>> /\ input.FailAt = 2
    /\ input.FailWith = "STATUS_UNSUCCESSFUL"
    /\ Len(s.calls) = 2 /\ s.calls[2].Start.Mdl = 2
    /\ s.NtStatus = "STATUS_UNSUCCESSFUL"


\* The byte count of chain c of the pairwise caller.
RECURSIVE PairBytesBefore(_, _)
PairBytesBefore(c, m) ==
    IF m <= 1 THEN 0
    ELSE Len(input.Chain[c][m - 1]) + PairBytesBefore(c, m - 1)

PairTotalByteCount(c) == PairBytesBefore(c, Len(input.Chain[c]) + 1)

\* TotalLength extends past the end of chain c.
ExtendsPast(c) ==
    input.MdlPointer[c].Offset + input.TotalLength > PairTotalByteCount(c)

PairwiseOps == {"MdlEqualBufferContents", "MdlEqualBufferContentsUpdateInputs"}

\* C34: MdlPairwiseIterateBuffers and MdlPairwiseIterateBuffersUpdateInputs
\* with TotalLength extending past the end of either chain do not read
\* through a null Mdl pointer and do not return (unless with a status of the
\* operator other than STATUS_SUCCESS): they end in the overflow report.
C34_PairwiseOverflowIsFatal ==
    (s.op \in PairwiseOps /\ (ExtendsPast(1) \/ ExtendsPast(2))) =>
        /\ ~s.nullread
        /\ s.pc \in {"iterated", "done"} => s.NtStatus # "STATUS_SUCCESS"

\* Two bytes of a chain of one byte against a chain of two equal bytes: after
\* the first pair of buffers the first pointer is (NULL, 0), one byte
\* remains, and the loop reads the byte count of the null MDL.
C34_NullReadAtChainEnd ==
    /\ s.op = "MdlEqualBufferContents" /\ s.nullread
    /\ input.Chain = << <<<<0>>>>, <<<<0, 0>>>> >>
    /\ input.MdlPointer[1].Offset = 0 /\ input.MdlPointer[2].Offset = 0
    /\ input.TotalLength = 2
    /\ Len(s.calls) = 1 /\ s.BytesRemaining = 1
    /\ s.MdlPointer[1] = [Mdl |-> NULL, Offset |-> 0]


\* The bytes of chain c in chain order.
RECURSIVE PairFlat(_, _)
PairFlat(c, m) ==
    IF m = 0 THEN << >> ELSE PairFlat(c, m - 1) \o input.Chain[c][m]

\* The TotalLength bytes of chain c from its pointer's Offset on.
PairRange(c) ==
    SubSeq(PairFlat(c, Len(input.Chain[c])),
           input.MdlPointer[c].Offset + 1,
           input.MdlPointer[c].Offset + input.TotalLength)

\* C35: MdlEqualBufferContents on two ranges that lie within their chains
\* neither reports an overflow nor reads through a null pointer; it never
\* returns STATUS_STOP_ITERATION; if every MDL it maps can be mapped it
\* returns STATUS_SUCCESS with AreBuffersEqual TRUE exactly if the two ranges
\* hold the same bytes, and if a mapping fails it returns
\* STATUS_INSUFFICIENT_RESOURCES with AreBuffersEqual FALSE.
C35_EqualExactlyWhenBytewiseEqual ==
    (s.op = "MdlEqualBufferContents" /\ ~ExtendsPast(1) /\ ~ExtendsPast(2)) =>
        /\ s.pc \in {"loop", "iterated", "done"}
        /\ s.pc = "done" =>
              /\ s.returned # "STATUS_STOP_ITERATION"
              /\ IF s.unmapped
                 THEN /\ s.returned = "STATUS_INSUFFICIENT_RESOURCES"
                      /\ s.AreBuffersEqual = FALSE
                 ELSE /\ s.returned = "STATUS_SUCCESS"
                      /\ s.AreBuffersEqual = (PairRange(1) = PairRange(2))

\* Three equal bytes in MDLs of 2 and 1 bytes against MDLs of 1 and 2 bytes:
\* three pairs of buffers of one byte each are compared.
C35_Witness ==
    /\ s.op = "MdlEqualBufferContents" /\ s.pc = "done"
    /\ input.Chain = << << <<0, 1>>, <<1>> >>, << <<0>>, <<1, 1>> >> >>
    /\ input.MdlPointer[1].Offset = 0 /\ input.MdlPointer[2].Offset = 0
    /\ input.TotalLength = 3
    /\ Len(s.calls) = 3 /\ ~s.unmapped
    /\ s.AreBuffersEqual = TRUE /\ s.returned = "STATUS_SUCCESS"


\* How many times an event is in the log of the OID request.
Logged(st, event) ==
    Cardinality({k \in 1 .. Len(st.log) : st.log[k] = event})

\* Nothing more will happen to the OID request: the routine has returned and
\* the completion handler, if the request pended, has too.
OidQuiescent(st) ==
    /\ st.pc = "done"
    /\ st.NdisStatus = "NDIS_STATUS_PENDING" => st.handler = "done"

\* C36: NdisFPassthroughOidRequest with a clone allocated.  The clone is
\* never freed twice and the original never completed twice; the data
\* lengths are copied from the clone to the original right before a free.
\* Once the routine has returned and, if NdisFOidRequest returned
\* NDIS_STATUS_PENDING, the completion handler has run: the clone was freed
\* exactly once, by the routine if the status was not NDIS_STATUS_PENDING and
\* by the handler if it was; the original was completed with
\* NdisFOidRequestComplete once if the request pended and not at all if not;
\* the original has the data lengths of the clone.
C36_CloneFreedOnceOriginalCompletedIfPended ==
    (s.op = "NdisFPassthroughOidRequest" /\ s.Clone # "none") =>
        LET frees == Logged(s, "caller frees") + Logged(s, "handler frees")
            completes == Logged(s, "handler completes original")
        IN  /\ frees <= 1 /\ completes <= 1
            /\ frees = 1 <=> s.Clone = "freed"
            /\ \A k \in 1 .. Len(s.log) :
                  /\ s.log[k] = "caller frees" =>
                        k > 1 /\ s.log[k - 1] = "caller copies"
                  /\ s.log[k] = "handler frees" =>
                        k > 1 /\ s.log[k - 1] = "handler copies"
            /\ s.NdisStatus \notin {"none", "NDIS_STATUS_PENDING"} =>
                  completes = 0 /\ Logged(s, "caller frees") = 1
            /\ OidQuiescent(s) =>
                  /\ frees = 1
                  /\ s.OriginalLength = input.After
                  /\ IF s.NdisStatus = "NDIS_STATUS_PENDING"
                     THEN Logged(s, "handler frees") = 1 /\ completes = 1
                     ELSE Logged(s, "caller frees") = 1 /\ completes = 0

\* The request pends and the completion handler runs before NdisFOidRequest
\* has returned NDIS_STATUS_PENDING to NdisFPassthroughOidRequest.
C36_Witness ==
    /\ s.op = "NdisFPassthroughOidRequest" /\ OidQuiescent(s)
    /\ s.returned = "NDIS_STATUS_PENDING"
    /\ s.log = <<"handler copies", "handler frees", "handler completes original">>
    /\ input.Before = 0 /\ input.After = 2 /\ s.OriginalLength = 2


\* C37: NdisFIssueOidRequestAndWait never returns NDIS_STATUS_PENDING.  If
\* NdisFOidRequest returned NDIS_STATUS_PENDING, the routine returns only
\* after the completion handler has written the status and set the event,
\* whether the handler ran before or after the wait began, and it returns the
\* CompletionStatus the handler was given; if NdisFOidRequest returned
\* another status, the routine returns that status and has not waited.
C37_WaitReturnsCompletionStatus ==
    (s.op = "NdisFIssueOidRequestAndWait" /\ s.pc = "done") =>
        /\ s.returned # "NDIS_STATUS_PENDING"
        /\ IF s.NdisStatus = "NDIS_STATUS_PENDING"
           THEN /\ s.handler = "done"
                /\ s.Signaled
                /\ s.returned = input.CompletionStatus
                /\ Logged(s, "waits") = 1 /\ Logged(s, "wakes") = 1
           ELSE /\ s.returned = s.NdisStatus
                /\ s.handler = "none"
                /\ Logged(s, "waits") = 0

\* The completion handler has written NDIS_STATUS_FAILURE and set the event
\* before NdisFOidRequest returned NDIS_STATUS_PENDING; the wait then returns
\* at once with NDIS_STATUS_FAILURE.
C37_Witness ==
    /\ s.op = "NdisFIssueOidRequestAndWait" /\ s.pc = "done"
    /\ s.log = <<"handler writes status", "handler signals", "waits", "wakes">>
    /\ s.returned = "NDIS_STATUS_FAILURE"

\* C38: NdisFOidRequestAndWait of the template whose Completion union holds
\* both WaitEvent and Status, on a request that pends: once the completion
\* handler has written the status it has set the waiter's event, without a
\* fault or undefined behaviour, and a waiter that has returned returned the
\* completion status.
C38_HandlerSignalsTheWaitersEvent ==
    (s.op = "NdisFOidRequestAndWait" /\ s.handler \notin {"none", "written"}) =>
        /\ s.handler = "done"
        /\ s.Signaled
        /\ s.pc = "done" => s.returned = input.CompletionStatus

\* With the one-union template no waiter whose request pended ever returns.
C38_PendedWaiterNeverReturns ==
    (s.op = "NdisFOidRequestAndWait" /\ s.NdisStatus = "NDIS_STATUS_PENDING") =>
        /\ s.pc = "waiting"
        /\ ~s.Signaled

\* The handler of the one-union template has finished without setting the
\* event (32-bit pointers, NDIS_STATUS_SUCCESS) while the waiter waits.
C38_Witness ==
    /\ s.op = "NdisFOidRequestAndWait" /\ s.pc = "waiting"
    /\ s.handler = "done" /\ ~s.Signaled
    /\ input.PointerBits = 32 /\ input.CompletionStatus = "NDIS_STATUS_SUCCESS"

====
